---------------------------- MODULE Spec2Model ----------------------------
(***************************************************************************)
(* A model of helm-package-readme-mcp-server: the TTL cache                *)
(* (src/services/cache.ts), the retry wrapper (src/utils/error-handler.ts),*)
(* the input validators (src/utils/validators.ts) and the three tool       *)
(* operations getPackageReadme, getPackageInfo and searchPackages.         *)
(*                                                                         *)
(* Optional values (T | null | undefined) are sequences of length at most  *)
(* one: <<>> is null/undefined, <<x>> is the value x.  Strings that the    *)
(* code inspects character by character are sequences of one-character     *)
(* strings.                                                                *)
(***************************************************************************)
EXTENDS Integers, Sequences, FiniteSets, TLC

VARIABLES
  options,   \* CacheOptions the cache was constructed with: [ttl, maxSize]
  data,      \* Cache.data: the Map, as the sequence of its entries in insertion order
  now,       \* Date.now()
  last,      \* the last public Cache operation and what it returned
  lastSet,   \* the key of the last Cache.set, while no other public operation has followed it
  stored,    \* per key, the arguments and clock value of the latest Cache.set of that key
  retryArgs, \* withRetry's arguments [maxRetries, baseDelay] and the function it is given
  retryPc,   \* where the withRetry call is: "calling", "sleeping", "returned", "thrown"
  attempt,   \* withRetry's loop variable
  lastError, \* withRetry's lastError
  settled,   \* how the withRetry promise settled: fn's value returned, or the error thrown
  fnLog,     \* what each call of fn did, in order
  waits,     \* the delay of each setTimeout between attempts, in order
  input,     \* the argument handed to a validator
  verdict,   \* what the validator did with it: returned, or the error it threw
  call,      \* the tool invocation in progress or just finished
  ncalls,    \* how many tool invocations have started
  ticks,     \* how many times the clock has advanced during tool invocations
  github,    \* the getReadmeContent call of the GitHub client, in progress or finished
  other,     \* a second tool invocation, suspended at an await while `call` runs
  lookup     \* the getPackageInfo call of the registry client, in progress or finished

cacheState == <<options, data, now>>

cacheGhost == <<last, lastSet, stored>>

retryVars == <<retryArgs, retryPc, attempt, lastError, settled, fnLog, waits>>

validVars == <<input, verdict>>

toolVars == <<call, ncalls, ticks, other>>

githubVars == <<github>>

lookupVars == <<lookup>>

vars == <<cacheState, cacheGhost, retryVars, validVars, toolVars, githubVars, lookupVars>>

None == <<>>

Some(x) == <<x>>

(***************************************************************************)
(* Bounds of the cache specification.                                      *)
(***************************************************************************)
MaxClock == 3

MaxTtlArg == 1

CacheKeys == {"k1", "k2"}

CacheValues == {"v1", "v2"}

\* set's optional ttl argument: omitted, 0, or a positive number
TtlArgs == {None} \cup {Some(n) : n \in 0..MaxTtlArg}

(***************************************************************************)
(* Program constants of cache.ts.                                          *)
(***************************************************************************)
DEFAULT_TTL == 3600000

DEFAULT_MAX_SIZE == 104857600

ENTRY_SIZE_ESTIMATE == 10000

\* options.ttl || 3600000
defaultTtl(opts) == IF opts.ttl = None \/ opts.ttl[1] = 0 THEN DEFAULT_TTL ELSE opts.ttl[1]

\* options.maxSize || 100 * 1024 * 1024
maxSize(opts) ==
  IF opts.maxSize = None \/ opts.maxSize[1] = 0 THEN DEFAULT_MAX_SIZE ELSE opts.maxSize[1]

(***************************************************************************)
(* The Map<string, CacheEntry>: entries [key, data, timestamp, ttl] in     *)
(* insertion order.                                                        *)
(***************************************************************************)
MapKeys(d) == {d[i].key : i \in 1..Len(d)}

MapIndex(d, key) == CHOOSE i \in 1..Len(d) : d[i].key = key

MapGet(d, key) == IF key \in MapKeys(d) THEN Some(d[MapIndex(d, key)]) ELSE None

MapDelete(d, key) == SelectSeq(d, LAMBDA e : e.key # key)

\* Map.set keeps the position of a key that is already present
MapSet(d, key, entry) ==
  IF key \in MapKeys(d)
    THEN [i \in 1..Len(d) |-> IF d[i].key = key THEN entry ELSE d[i]]
    ELSE Append(d, entry)

\* now > entry.timestamp + entry.ttl
Expired(e, t) == t > e.timestamp + e.ttl

\* Cache.get with the strict comparison replaced by >=
getInclusive(d, key, t) ==
  LET entry == MapGet(d, key) IN
  IF entry = None THEN [ret |-> None, data |-> d]
  ELSE IF t >= entry[1].timestamp + entry[1].ttl
    THEN [ret |-> None, data |-> MapDelete(d, key)]
    ELSE [ret |-> Some(entry[1].data), data |-> d]

\* Cache.get without the expiry test
getNoExpiry(d, key, t) ==
  LET entry == MapGet(d, key) IN
  IF entry = None THEN [ret |-> None, data |-> d]
  ELSE [ret |-> Some(entry[1].data), data |-> d]

\* Cache.get: the value returned and the map afterwards
get(d, key, t) ==
  LET entry == MapGet(d, key) IN
  IF entry = None THEN [ret |-> None, data |-> d]
  ELSE IF Expired(entry[1], t)
    THEN [ret |-> None, data |-> MapDelete(d, key)]
    ELSE [ret |-> Some(entry[1].data), data |-> d]

\* Cache.has
has(d, key, t) ==
  LET entry == MapGet(d, key) IN
  IF entry = None THEN [ret |-> FALSE, data |-> d]
  ELSE IF Expired(entry[1], t)
    THEN [ret |-> FALSE, data |-> MapDelete(d, key)]
    ELSE [ret |-> TRUE, data |-> d]

\* Cache.delete
delete(d, key) == [ret |-> key \in MapKeys(d), data |-> MapDelete(d, key)]

\* Cache.clear
clear(d) == <<>>

\* cleanup with the comparison >= in place of >
cleanupInclusive(d, t) == SelectSeq(d, LAMBDA e : t < e.timestamp + e.ttl)

\* Cache.cleanup: the periodic sweep
cleanup(d, t) == SelectSeq(d, LAMBDA e : ~Expired(e, t))

\* Math.ceil(size * 0.1)
CeilTenth(size) == (size + 9) \div 10

\* index of the first entry with the least timestamp (Array.sort is stable)
OldestIndex(d) ==
  CHOOSE i \in 1..Len(d) :
    /\ \A j \in 1..Len(d) : d[i].timestamp <= d[j].timestamp
    /\ \A j \in 1..(i - 1) : d[j].timestamp # d[i].timestamp

RECURSIVE RemoveOldest(_, _)
\* delete the first n entries of the map sorted by timestamp, oldest first
RemoveOldest(d, n) ==
  IF n = 0 \/ d = <<>> THEN d
  ELSE RemoveOldest(MapDelete(d, d[OldestIndex(d)].key), n - 1)

\* enforceMaxSize removing nothing
enforceMaxSizeOff(d, opts) == d

\* enforceMaxSize with the comparison >= in place of >
enforceMaxSizeInclusive(d, opts) ==
  IF Len(d) * ENTRY_SIZE_ESTIMATE >= maxSize(opts)
    THEN RemoveOldest(d, CeilTenth(Len(d)))
    ELSE d

\* Cache.enforceMaxSize
enforceMaxSize(d, opts) ==
  IF Len(d) * ENTRY_SIZE_ESTIMATE > maxSize(opts)
    THEN RemoveOldest(d, CeilTenth(Len(d)))
    ELSE d

\* ttl || this.defaultTtl
\* a set that ignores its ttl argument
entryTtlDefaultOnly(ttl, opts) == defaultTtl(opts)

entryTtl(ttl, opts) == IF ttl = None \/ ttl[1] = 0 THEN defaultTtl(opts) ELSE ttl[1]

\* a set that leaves an entry the key already has
setKeepsFirst(d, key, value, ttl, t, opts) ==
  IF key \in MapKeys(d) THEN d
  ELSE MapSet(enforceMaxSize(d, opts), key,
              [key |-> key, data |-> value, timestamp |-> t, ttl |-> entryTtl(ttl, opts)])

\* Cache.set
set(d, key, value, ttl, t, opts) ==
  MapSet(enforceMaxSize(d, opts), key,
         [key |-> key, data |-> value, timestamp |-> t, ttl |-> entryTtl(ttl, opts)])

(***************************************************************************)
(* The cache as a state machine: its public operations, the sweep timer    *)
(* and the clock.                                                          *)
(***************************************************************************)
\* a step of the cache alone
CacheOnly == UNCHANGED <<retryVars, validVars, toolVars, githubVars, lookupVars>>

\* the retry wrapper at rest
RetryIdle ==
  /\ retryArgs = [maxRetries |-> 0, baseDelay |-> 0, fn |-> "none"]
  /\ retryPc = "idle"
  /\ attempt = 0
  /\ lastError = None
  /\ settled = None
  /\ fnLog = <<>>
  /\ waits = <<>>

\* no validator under test
ValidIdle ==
  /\ input = [type |-> "undefined", chars |-> <<>>]
  /\ verdict = None

\* the params object of an invocation, after destructuring with defaults
NoArgs ==
  [package_name |-> [type |-> "undefined", chars |-> <<>>],
   version |-> [type |-> "undefined", chars |-> <<>>],
   query |-> [type |-> "undefined", chars |-> <<>>],
   limit |-> [type |-> "undefined", value |-> 0, integer |-> FALSE]]

\* no tool invocation
NoCall ==
  [op |-> "none", pc |-> "idle", package_name |-> <<>>, version |-> <<>>, flag |-> TRUE,
   query |-> <<>>, limit |-> 0, args |-> NoArgs, key |-> <<>>, lookupAt |-> 0,
   fresh |-> FALSE, hit |-> FALSE, ext |-> 0, pkg |-> None, readme |-> <<>>,
   infoError |-> None, searchError |-> None, malformed |-> FALSE, result |-> None]

ToolsIdle ==
  /\ call = NoCall
  /\ ncalls = 0
  /\ ticks = 0
  /\ other = NoCall

\* no getReadmeContent call
NoFetch ==
  [pc |-> "idle", url |-> "", request |-> 0, failures |-> 0, log |-> <<>>, result |-> None]

GithubIdle == github = NoFetch

\* no getPackageInfo call of the registry client
NoLookup ==
  [pc |-> "idle", version |-> "", outer |-> 0, inner |-> 0,
   packageRequests |-> 0, versionRequests |-> 0, result |-> None]

LookupIdle == lookup = NoLookup

NoOp == [op |-> "none", key |-> "", ret |-> None, at |-> 0, found |-> FALSE, after |-> None]

CacheInit ==
  /\ options \in {[ttl |-> Some(2), maxSize |-> Some(10000)],
                  [ttl |-> None, maxSize |-> None]}
  /\ data = <<>>
  /\ now = 0
  /\ last = NoOp
  /\ lastSet = None
  /\ stored = [k \in CacheKeys |-> None]
  /\ RetryIdle
  /\ ValidIdle
  /\ ToolsIdle
  /\ GithubIdle
  /\ LookupIdle

DoSet ==
  \E key \in CacheKeys, value \in CacheValues, ttl \in TtlArgs :
    /\ data' = set(data, key, value, ttl, now, options)
    /\ last' = [op |-> "set", key |-> key, ret |-> None, at |-> now,
                found |-> key \in MapKeys(data), after |-> None]
    /\ lastSet' = Some(key)
    /\ stored' = [stored EXCEPT ![key] =
                    Some([value |-> value, ttlArg |-> ttl,
                          ttl |-> entryTtl(ttl, options), at |-> now])]
    /\ UNCHANGED <<options, now>>
    /\ CacheOnly

DoGet ==
  \E key \in CacheKeys :
    LET r == get(data, key, now) IN
    /\ data' = r.data
    /\ last' = [op |-> "get", key |-> key, ret |-> r.ret, at |-> now,
                found |-> key \in MapKeys(data), after |-> lastSet]
    /\ lastSet' = None
    /\ UNCHANGED <<options, now, stored>>
    /\ CacheOnly

DoHas ==
  \E key \in CacheKeys :
    LET r == has(data, key, now) IN
    /\ data' = r.data
    /\ last' = [op |-> "has", key |-> key, ret |-> Some(r.ret), at |-> now,
                found |-> key \in MapKeys(data), after |-> None]
    /\ lastSet' = None
    /\ UNCHANGED <<options, now, stored>>
    /\ CacheOnly

DoDelete ==
  \E key \in CacheKeys :
    LET r == delete(data, key) IN
    /\ data' = r.data
    /\ last' = [op |-> "delete", key |-> key, ret |-> Some(r.ret), at |-> now,
                found |-> key \in MapKeys(data), after |-> None]
    /\ lastSet' = None
    /\ UNCHANGED <<options, now, stored>>
    /\ CacheOnly

DoClear ==
  /\ data' = clear(data)
  /\ last' = [op |-> "clear", key |-> "", ret |-> None, at |-> now,
              found |-> FALSE, after |-> None]
  /\ lastSet' = None
  /\ UNCHANGED <<options, now, stored>>
  /\ CacheOnly

\* the setInterval callback of the constructor
DoCleanup ==
  /\ data' = cleanup(data, now)
  /\ UNCHANGED <<options, now, last, lastSet, stored>>
  /\ CacheOnly

Tick ==
  /\ now < MaxClock
  /\ now' = now + 1
  /\ UNCHANGED <<options, data, last, lastSet, stored>>
  /\ CacheOnly

CacheNext == DoSet \/ DoGet \/ DoHas \/ DoDelete \/ DoClear \/ DoCleanup \/ Tick

SpecCache == CacheInit /\ [][CacheNext]_vars

(***************************************************************************)
(* C1: Cache.get never returns the value of an entry at a time `now` with  *)
(* now > insertedAt + ttl, where insertedAt is the clock value of the set  *)
(* that stored the entry and ttl the effective TTL of that set: a get that *)
(* returned a value returned the value of the latest set of its key, at a  *)
(* time not after insertedAt + ttl.                                        *)
(***************************************************************************)
C1_NeverReturnedAfterExpiry ==
  (last.op = "get" /\ last.ret # None) =>
    /\ stored[last.key] # None
    /\ last.ret = Some(stored[last.key][1].value)
    /\ ~(last.at > stored[last.key][1].at + stored[last.key][1].ttl)

\* a get found its entry in the map after insertedAt + ttl and returned null
C1_Witness ==
  /\ last.op = "get"
  /\ last.found
  /\ stored[last.key] # None
  /\ last.at > stored[last.key][1].at + stored[last.key][1].ttl
  /\ last.ret = None

\* the get that directly follows a set of the same key
GetAfterSet == last.op = "get" /\ last.after = Some(last.key)

(***************************************************************************)
(* C2 as stated: after set(k, v, ttl) with a ttl argument, the next        *)
(* operation get(k) returns v when fewer than ttl milliseconds have        *)
(* elapsed, and once ttl milliseconds have elapsed returns null and leaves *)
(* k out of the cache.                                                     *)
(***************************************************************************)
C2_RoundTripAsStated ==
  (GetAfterSet /\ stored[last.key][1].ttlArg # None) =>
    LET s == stored[last.key][1]
        elapsed == last.at - s.at
    IN IF elapsed < s.ttlArg[1]
         THEN last.ret = Some(s.value)
         ELSE last.ret = None /\ last.key \notin MapKeys(data)

(***************************************************************************)
(* C2 amended: after set(k, v, ttl), with e the effective TTL (ttl, or the *)
(* cache's default TTL when ttl is omitted or 0), the next operation       *)
(* get(k) returns v while at most e milliseconds have elapsed, and returns *)
(* null and leaves k out of the cache once more than e have elapsed.       *)
(***************************************************************************)
C2_RoundTrip ==
  GetAfterSet =>
    LET s == stored[last.key][1]
        elapsed == last.at - s.at
    IN IF elapsed <= s.ttl
         THEN last.ret = Some(s.value)
         ELSE last.ret = None /\ last.key \notin MapKeys(data)

\* a get directly after the set of its key, exactly ttl milliseconds later, returned the value
C2_Witness ==
  /\ GetAfterSet
  /\ stored[last.key][1].ttlArg # None
  /\ stored[last.key][1].ttlArg[1] > 0
  /\ last.at - stored[last.key][1].at = stored[last.key][1].ttl
  /\ last.ret = Some(stored[last.key][1].value)

(***************************************************************************)
(* Errors (src/types/index.ts): the class and the statusCode handed to     *)
(* PackageReadmeMcpError; a plain Error carries what its message says.     *)
(***************************************************************************)
PackageNotFoundError ==
  [class |-> "PackageNotFoundError", statusCode |-> Some(404), cause |-> ""]

VersionNotFoundError ==
  [class |-> "VersionNotFoundError", statusCode |-> Some(404), cause |-> ""]

RateLimitError == [class |-> "RateLimitError", statusCode |-> Some(429), cause |-> ""]

NetworkError(cause) == [class |-> "NetworkError", statusCode |-> None, cause |-> cause]

InvalidPackageNameError ==
  [class |-> "InvalidPackageNameError", statusCode |-> Some(400), cause |-> ""]

\* a PackageReadmeMcpError constructed directly with statusCode 404
McpError404 == [class |-> "PackageReadmeMcpError", statusCode |-> Some(404), cause |-> ""]

\* a plain Error; cause is what its message contains
PlainError(cause) == [class |-> "Error", statusCode |-> None, cause |-> cause]

McpClasses ==
  {"PackageReadmeMcpError", "PackageNotFoundError", "VersionNotFoundError",
   "RateLimitError", "NetworkError", "InvalidPackageNameError"}

\* error instanceof PackageReadmeMcpError
IsMcpError(e) == e.class \in McpClasses

\* handleApiError: the error it throws
handleApiError(e) ==
  IF IsMcpError(e) THEN e
  ELSE IF e.cause \in {"package not found", "404"} THEN PackageNotFoundError
  ELSE IF e.cause \in {"rate limit", "429"} THEN RateLimitError
  ELSE NetworkError(e.cause)

\* handleHttpError: the error it throws for a response status
handleHttpError(status) ==
  CASE status = 404 -> PackageNotFoundError
    [] status = 429 -> RateLimitError
    [] status = 401 -> NetworkError("Authentication failed")
    [] status = 403 -> NetworkError("Access forbidden")
    [] status \in {500, 502, 503, 504} -> NetworkError("Server error")
    [] OTHER -> NetworkError("HTTP error")

\* what fetch can do: resolve with a response of some status, or reject
HttpStatuses == {200, 401, 403, 404, 418, 429, 500, 503}

Payloads == {"body1", "body2"}

FetchOutcomes ==
  {[kind |-> "response", status |-> st, body |-> b] : st \in HttpStatuses, b \in Payloads}
  \cup {[kind |-> "reject", status |-> 0, body |-> n] : n \in {"AbortError", "TypeError"}}

Return(v) == [kind |-> "return", value |-> v, error |-> None]

Throw(e) == [kind |-> "throw", value |-> "", error |-> Some(e)]

\* the function makeApiRequest hands to withRetry, for one outcome of fetch
apiAttempt(f) ==
  IF f.kind = "response"
    THEN IF f.status \in 200..299
           THEN Return(f.body)
           ELSE Throw(handleApiError(handleHttpError(f.status)))
    ELSE IF f.body = "AbortError"
           THEN Throw(handleApiError(PlainError("Request timeout")))
           ELSE Throw(handleApiError(PlainError("fetch failed")))

\* what one call of the fn given to withRetry can do
FnOutcomes ==
  {apiAttempt(f) : f \in FetchOutcomes}
  \cup {Throw(VersionNotFoundError), Throw(McpError404), Throw(PlainError("other"))}

\* the value of a call that returned null
NullBody == "<null>"

\* the function getPackageValues (and, with the same body, getPackageChangelog) hands to
\* withRetry, for one outcome of fetch: a 404 returns null; the error handleHttpError
\* throws for another status is caught and null is returned; in the catch block an
\* AbortError is handed to handleApiError, which throws
enrichmentAttempt(f) ==
  IF f.kind = "response"
    THEN IF f.status \in 200..299 THEN Return(f.body) ELSE Return(NullBody)
    ELSE IF f.body = "AbortError"
           THEN Throw(handleApiError(PlainError("Request timeout")))
           ELSE Return(NullBody)

EnrichmentOutcomes == {enrichmentAttempt(f) : f \in FetchOutcomes}

\* what one call of the fn that retryArgs.fn names can do
fnOutcomes(fn) == IF fn \in {"values", "changelog"} THEN EnrichmentOutcomes ELSE FnOutcomes

\* withRetry retrying every error
isNotRetriedNever(e) == FALSE

\* withRetry's "Don't retry certain errors"
isNotRetried(e) ==
  \/ e.class = "PackageNotFoundError"
  \/ e.class = "VersionNotFoundError"
  \/ (IsMcpError(e) /\ e.statusCode = Some(404))

\* a delay that does not grow with the attempt
backoffDelayConstant(base, n) == base

\* baseDelay * Math.pow(2, attempt - 1)
backoffDelay(base, n) == base * 2 ^ (n - 1)

\* Math.random() * 0.1 * delay lies in [0, delay / 10): its least, a middle and a greatest value
JitterOf(delay) == {0, delay \div 20, delay \div 10 - 1}

MAX_RETRIES_API == 3

MAX_RETRIES_VALUES == 2

BASE_DELAY == 1000

(***************************************************************************)
(* withRetry as a state machine: one action per outcome of `await fn()`    *)
(* and one for the timer between two attempts.                             *)
(***************************************************************************)
RetryOnly == UNCHANGED <<cacheState, cacheGhost, validVars, toolVars, githubVars, lookupVars>>

RetryInit ==
  /\ options = [ttl |-> None, maxSize |-> None]
  /\ data = <<>>
  /\ now = 0
  /\ last = NoOp
  /\ lastSet = None
  /\ stored = [k \in CacheKeys |-> None]
  /\ retryArgs \in {[maxRetries |-> MAX_RETRIES_API, baseDelay |-> BASE_DELAY, fn |-> "request"],
                    [maxRetries |-> MAX_RETRIES_VALUES, baseDelay |-> BASE_DELAY, fn |-> "request"],
                    [maxRetries |-> MAX_RETRIES_VALUES, baseDelay |-> BASE_DELAY, fn |-> "values"],
                    [maxRetries |-> MAX_RETRIES_VALUES, baseDelay |-> BASE_DELAY, fn |-> "changelog"]}
  /\ retryPc = "calling"
  /\ attempt = 1
  /\ lastError = None
  /\ settled = None
  /\ fnLog = <<>>
  /\ waits = <<>>
  /\ ValidIdle
  /\ ToolsIdle
  /\ GithubIdle
  /\ LookupIdle

\* fn resolves: withRetry returns its result
AttemptReturns ==
  /\ retryPc = "calling"
  /\ \E r \in fnOutcomes(retryArgs.fn) :
       /\ r.kind = "return"
       /\ fnLog' = Append(fnLog, r)
       /\ settled' = Some(r)
       /\ retryPc' = "returned"
  /\ UNCHANGED <<retryArgs, attempt, lastError, waits>>
  /\ RetryOnly

\* fn rejects with an error that is not retried: withRetry rethrows it
AttemptThrowsNotRetried ==
  /\ retryPc = "calling"
  /\ \E r \in fnOutcomes(retryArgs.fn) :
       /\ r.kind = "throw"
       /\ isNotRetried(r.error[1])
       /\ fnLog' = Append(fnLog, r)
       /\ lastError' = r.error
       /\ settled' = Some(Throw(r.error[1]))
       /\ retryPc' = "thrown"
  /\ UNCHANGED <<retryArgs, attempt, waits>>
  /\ RetryOnly

\* fn rejects on the last attempt: the loop breaks and lastError is thrown
AttemptThrowsLast ==
  /\ retryPc = "calling"
  /\ attempt = retryArgs.maxRetries
  /\ \E r \in fnOutcomes(retryArgs.fn) :
       /\ r.kind = "throw"
       /\ ~isNotRetried(r.error[1])
       /\ fnLog' = Append(fnLog, r)
       /\ lastError' = r.error
       /\ settled' = Some(Throw(r.error[1]))
       /\ retryPc' = "thrown"
  /\ UNCHANGED <<retryArgs, attempt, waits>>
  /\ RetryOnly

\* fn rejects before the last attempt: withRetry sleeps delay + jitter
AttemptThrowsRetried ==
  /\ retryPc = "calling"
  /\ attempt # retryArgs.maxRetries
  /\ \E r \in fnOutcomes(retryArgs.fn) :
       /\ r.kind = "throw"
       /\ ~isNotRetried(r.error[1])
       /\ fnLog' = Append(fnLog, r)
       /\ lastError' = r.error
  /\ \E jitter \in JitterOf(backoffDelay(retryArgs.baseDelay, attempt)) :
       waits' = Append(waits, backoffDelay(retryArgs.baseDelay, attempt) + jitter)
  /\ retryPc' = "sleeping"
  /\ UNCHANGED <<retryArgs, attempt, settled>>
  /\ RetryOnly

\* the timer fires: the next iteration of the loop
WakeUp ==
  /\ retryPc = "sleeping"
  /\ attempt' = attempt + 1
  /\ retryPc' = "calling"
  /\ UNCHANGED <<retryArgs, lastError, settled, fnLog, waits>>
  /\ RetryOnly

RetryNext ==
  AttemptReturns \/ AttemptThrowsNotRetried \/ AttemptThrowsLast \/ AttemptThrowsRetried \/ WakeUp

SpecRetry == RetryInit /\ [][RetryNext]_vars

\* the outcome of an attempt whose fetch was aborted by the timeout
TimeoutOutcome == apiAttempt([kind |-> "reject", status |-> 0, body |-> "AbortError"])

\* the first k calls of fn failed with a timeout and call k+1 succeeded
TimeoutsThenSuccess(k) ==
  /\ Len(fnLog) >= k + 1
  /\ \A i \in 1..k : fnLog[i] = TimeoutOutcome
  /\ fnLog[k + 1].kind = "return"

(***************************************************************************)
(* C6: with an attempt budget of 3, a call whose first k < 3 attempts fail *)
(* with a timeout and whose attempt k+1 succeeds returns that successful   *)
(* result after exactly k+1 attempts; a call whose attempt fails with a    *)
(* 404-class error (PackageNotFoundError, VersionNotFoundError, statusCode *)
(* 404) makes no further attempt and propagates that error, so a call      *)
(* whose first attempt fails that way performs exactly one attempt.        *)
(***************************************************************************)
C6_RetryBudget ==
  retryArgs.maxRetries = MAX_RETRIES_API =>
    /\ \A k \in 0..(MAX_RETRIES_API - 1) :
         TimeoutsThenSuccess(k) =>
           /\ retryPc = "returned"
           /\ Len(fnLog) = k + 1
           /\ attempt = k + 1
           /\ settled = Some(Return(fnLog[k + 1].value))
    /\ \A i \in 1..Len(fnLog) :
         (fnLog[i].kind = "throw" /\
            (fnLog[i].error[1].class \in {"PackageNotFoundError", "VersionNotFoundError"}
               \/ fnLog[i].error[1].statusCode = Some(404))) =>
           /\ retryPc = "thrown"
           /\ Len(fnLog) = i
           /\ settled = Some(Throw(fnLog[i].error[1]))

\* two timeouts, then the third attempt succeeded and its result was returned
C6_Witness ==
  /\ retryArgs.maxRetries = MAX_RETRIES_API
  /\ TimeoutsThenSuccess(2)
  /\ retryPc = "returned"
  /\ Len(fnLog) = 3

(***************************************************************************)
(* validators.ts.  A string is the sequence of its characters.             *)
(***************************************************************************)
MaxNameLen == 4

MAX_SEGMENT_LENGTH == 100

Whitespace == {" ", "\t", "\n", "\r"}

UpperCase ==
  <<"A", "B", "C", "D", "E", "F", "G", "H", "I", "J", "K", "L", "M",
    "N", "O", "P", "Q", "R", "S", "T", "U", "V", "W", "X", "Y", "Z">>

LowerCase ==
  <<"a", "b", "c", "d", "e", "f", "g", "h", "i", "j", "k", "l", "m",
    "n", "o", "p", "q", "r", "s", "t", "u", "v", "w", "x", "y", "z">>

Digits == {"0", "1", "2", "3", "4", "5", "6", "7", "8", "9"}

Range(f) == {f[i] : i \in DOMAIN f}

\* the characters outside /[^a-zA-Z0-9\-_.]/
NameChars == Range(UpperCase) \cup Range(LowerCase) \cup Digits \cup {"-", "_", "."}

toLowerChar(c) ==
  IF c \in Range(UpperCase)
    THEN LowerCase[CHOOSE i \in DOMAIN UpperCase : UpperCase[i] = c]
    ELSE c

\* String.prototype.toLowerCase
toLowerCase(str) == [i \in 1..Len(str) |-> toLowerChar(str[i])]

RECURSIVE trimStart(_)
trimStart(str) ==
  IF str # <<>> /\ Head(str) \in Whitespace THEN trimStart(Tail(str)) ELSE str

RECURSIVE trimEnd(_)
trimEnd(str) ==
  IF str # <<>> /\ str[Len(str)] \in Whitespace
    THEN trimEnd(SubSeq(str, 1, Len(str) - 1))
    ELSE str

\* String.prototype.trim
trim(str) == trimEnd(trimStart(str))

RECURSIVE split(_, _)
\* String.prototype.split with a one-character separator
split(str, sep) ==
  IF \E i \in 1..Len(str) : str[i] = sep
    THEN LET i == CHOOSE k \in 1..Len(str) :
                    str[k] = sep /\ \A j \in 1..(k - 1) : str[j] # sep
         IN <<SubSeq(str, 1, i - 1)>> \o split(SubSeq(str, i + 1, Len(str)), sep)
    ELSE <<str>>

\* invalidChars.test(str)
hasInvalidChars(str) == \E i \in 1..Len(str) : str[i] \notin NameChars

reservedNames ==
  {<<"_">>, <<".">>, <<".", ".">>, <<"c", "o", "n">>, <<"p", "r", "n">>,
   <<"a", "u", "x">>, <<"n", "u", "l">>}

Accepted == [kind |-> "return", error |-> "", reason |-> ""]

Rejected(reason) == [kind |-> "throw", error |-> "InvalidPackageNameError", reason |-> reason]

\* validatePackageName comparing the segments with the reserved names as they are written
validatePackageNameCaseSensitive(packageName) ==
  IF packageName.type # "string" \/ packageName.chars = <<>>
    THEN Rejected("required")
  ELSE
    LET name == trim(packageName.chars)
        parts == split(name, "/")
    IN
    IF Len(name) = 0 THEN Rejected("empty")
    ELSE IF Len(parts) # 2 THEN Rejected("format")
    ELSE
      LET repo == parts[1]
          chart == parts[2]
      IN
      IF repo = <<>> \/ Len(trim(repo)) = 0 THEN Rejected("repo empty")
      ELSE IF chart = <<>> \/ Len(trim(chart)) = 0 THEN Rejected("chart empty")
      ELSE IF hasInvalidChars(repo) THEN Rejected("repo characters")
      ELSE IF hasInvalidChars(chart) THEN Rejected("chart characters")
      ELSE IF Len(repo) > MAX_SEGMENT_LENGTH THEN Rejected("repo too long")
      ELSE IF Len(chart) > MAX_SEGMENT_LENGTH THEN Rejected("chart too long")
      ELSE IF repo \in reservedNames \/ chart \in reservedNames
        THEN Rejected("reserved")
      ELSE Accepted

\* validatePackageName: returns, or the InvalidPackageNameError it throws
validatePackageName(packageName) ==
  IF packageName.type # "string" \/ packageName.chars = <<>>
    THEN Rejected("required")
  ELSE
    LET name == trim(packageName.chars)
        parts == split(name, "/")
    IN
    IF Len(name) = 0 THEN Rejected("empty")
    ELSE IF Len(parts) # 2 THEN Rejected("format")
    ELSE
      LET repo == parts[1]
          chart == parts[2]
      IN
      IF repo = <<>> \/ Len(trim(repo)) = 0 THEN Rejected("repo empty")
      ELSE IF chart = <<>> \/ Len(trim(chart)) = 0 THEN Rejected("chart empty")
      ELSE IF hasInvalidChars(repo) THEN Rejected("repo characters")
      ELSE IF hasInvalidChars(chart) THEN Rejected("chart characters")
      ELSE IF Len(repo) > MAX_SEGMENT_LENGTH THEN Rejected("repo too long")
      ELSE IF Len(chart) > MAX_SEGMENT_LENGTH THEN Rejected("chart too long")
      ELSE IF toLowerCase(repo) \in reservedNames \/ toLowerCase(chart) \in reservedNames
        THEN Rejected("reserved")
      ELSE Accepted

(***************************************************************************)
(* The inputs a validator is applied to: every string of up to MaxNameLen  *)
(* characters over a small alphabet, the reserved words in several         *)
(* spellings, segments at and beyond the length limit, names padded with   *)
(* whitespace, and values that are not strings.                            *)
(***************************************************************************)
NameAlphabet == {"a", "/", " ", "@", "."}

ShortStrings == UNION {[1..n -> NameAlphabet] : n \in 0..MaxNameLen}

Repeat(c, n) == [i \in 1..n |-> c]

LongStrings ==
  {Repeat("a", n) \o <<"/">> \o Repeat("b", m) :
     n \in {1, MAX_SEGMENT_LENGTH, MAX_SEGMENT_LENGTH + 1},
     m \in {1, MAX_SEGMENT_LENGTH, MAX_SEGMENT_LENGTH + 1}}

ReservedSpellings ==
  {<<"c", "o", "n">>, <<"C", "O", "N">>, <<"P", "r", "n">>, <<"a", "u", "X">>,
   <<"n", "u", "l">>, <<"N", "u", "L">>, <<"_">>, <<".", ".">>}

CraftedStrings ==
  {w \o <<"/", "x">> : w \in ReservedSpellings}
  \cup {<<"x", "/">> \o w : w \in ReservedSpellings}
  \cup {<<" ", " ">> \o w \o <<"\t">> : w \in LongStrings}
  \cup {<<"\t", "m", "y", "-", "r", "e", "p", "o", "/", "A", "p", "p", "_", "2", " ">>,
        <<"s", "t", "a", "b", "l", "e", "/", "n", "g", "i", "n", "x", "/", "e">>,
        <<"r", "e", "p", "o", "/", "c", "h", "a", "r", "t", "#", "1">>,
        <<"c", "o", "n", "s", "/", "n", "u", "l", "l">>}

NameInputs ==
  {[type |-> "string", chars |-> c] : c \in ShortStrings \cup LongStrings \cup CraftedStrings}
  \cup {[type |-> t, chars |-> <<>>] : t \in {"undefined", "number", "object"}}

ValidOnly == UNCHANGED <<cacheState, cacheGhost, retryVars, toolVars, githubVars, lookupVars>>

ValidInit ==
  /\ options = [ttl |-> None, maxSize |-> None]
  /\ data = <<>>
  /\ now = 0
  /\ last = NoOp
  /\ lastSet = None
  /\ stored = [k \in CacheKeys |-> None]
  /\ RetryIdle
  /\ input \in NameInputs
  /\ verdict = None
  /\ ToolsIdle
  /\ GithubIdle
  /\ LookupIdle

ValidatePackageName ==
  /\ verdict = None
  /\ verdict' = Some(validatePackageName(input))
  /\ UNCHANGED input
  /\ ValidOnly

ValidNext == ValidatePackageName

SpecValidate == ValidInit /\ [][ValidNext]_vars

\* repo/chart: exactly one '/', both segments non-empty, of name characters only, at most
\* 100 characters long, and neither a reserved word in any spelling
WellFormedName(str) ==
  \E i \in 1..Len(str) :
    /\ str[i] = "/"
    /\ \A j \in 1..Len(str) : j # i => str[j] \in NameChars
    /\ i - 1 \in 1..MAX_SEGMENT_LENGTH
    /\ Len(str) - i \in 1..MAX_SEGMENT_LENGTH
    /\ toLowerCase(SubSeq(str, 1, i - 1)) \notin reservedNames
    /\ toLowerCase(SubSeq(str, i + 1, Len(str))) \notin reservedNames

\* str is a well-formed name between leading and trailing whitespace
WellFormedInWhitespace(str) ==
  \E i, j \in 1..Len(str) :
    /\ i <= j
    /\ \A k \in 1..(i - 1) : str[k] \in Whitespace
    /\ \A k \in (j + 1)..Len(str) : str[k] \in Whitespace
    /\ WellFormedName(SubSeq(str, i, j))

(***************************************************************************)
(* C10 as stated: validatePackageName rejects with InvalidPackageNameError *)
(* every input that is not itself of the form repo/chart (two non-empty    *)
(* segments of [A-Za-z0-9_.-], each at most 100 characters, neither a      *)
(* reserved word).                                                         *)
(***************************************************************************)
C10_RejectsAsStated ==
  (verdict # None /\ ~(input.type = "string" /\ WellFormedName(input.chars))) =>
    verdict[1] = Rejected(verdict[1].reason)

(***************************************************************************)
(* C10 amended: validatePackageName rejects with InvalidPackageNameError   *)
(* every input that, once leading and trailing whitespace is removed, is   *)
(* not of the form repo/chart (two non-empty segments of [A-Za-z0-9_.-],   *)
(* each at most 100 characters, neither a reserved word in any case).      *)
(***************************************************************************)
C10_RejectsMalformed ==
  (verdict # None /\ ~(input.type = "string" /\ WellFormedInWhitespace(input.chars))) =>
    verdict[1] = Rejected(verdict[1].reason)

\* a name with a reserved word in upper case as its repository was rejected
C10_Witness ==
  /\ verdict # None
  /\ input.type = "string"
  /\ input.chars = <<"C", "O", "N", "/", "x">>
  /\ verdict[1].kind = "throw"

(***************************************************************************)
(* The other validators of validators.ts, used by the tool operations.     *)
(***************************************************************************)
MAX_VERSION_LENGTH == 50

MIN_QUERY_LENGTH == 2

MAX_QUERY_LENGTH == 500

MIN_LIMIT == 1

MAX_LIMIT == 250

DEFAULT_LIMIT == 20

Latest == <<"l", "a", "t", "e", "s", "t">>

ValidationError(reason) == [kind |-> "throw", error |-> "ValidationError", reason |-> reason]

allIn(str, S) == \A i \in 1..Len(str) : str[i] \in S

\* \d+
isDigits(str) == str # <<>> /\ allIn(str, Digits)

\* [0-9a-zA-Z-]
IdentChars == Digits \cup Range(UpperCase) \cup Range(LowerCase) \cup {"-"}

\* \w
WordChars == Digits \cup Range(UpperCase) \cup Range(LowerCase) \cup {"_"}

\* [0-9a-zA-Z-]+(?:\.[0-9a-zA-Z-]+)*
dotIdents(str) ==
  LET parts == split(str, ".") IN
  \A i \in 1..Len(parts) : parts[i] # <<>> /\ allIn(parts[i], IdentChars)

\* index of the first character of str that is in S, or Len(str) + 1
firstIndexIn(str, S) ==
  IF \E i \in 1..Len(str) : str[i] \in S
    THEN CHOOSE i \in 1..Len(str) : str[i] \in S /\ \A j \in 1..(i - 1) : str[j] \notin S
    ELSE Len(str) + 1

\* ^v?
stripV(str) == IF str # <<>> /\ Head(str) = "v" THEN Tail(str) ELSE str

\* semverPattern.test(str)
matchesSemver(str) ==
  LET body == stripV(str)
      e == firstIndexIn(body, {"-", "+"})
      nums == split(SubSeq(body, 1, e - 1), ".")
      rest == SubSeq(body, e, Len(body))
      p == firstIndexIn(rest, {"+"})
  IN /\ Len(nums) = 3
     /\ \A i \in 1..3 : isDigits(nums[i])
     /\ \/ rest = <<>>
        \/ /\ rest # <<>>
           /\ Head(rest) = "-"
           /\ dotIdents(SubSeq(rest, 2, p - 1))
           /\ (p > Len(rest) \/ dotIdents(SubSeq(rest, p + 1, Len(rest))))
        \/ /\ rest # <<>>
           /\ Head(rest) = "+"
           /\ dotIdents(Tail(rest))

\* simplePattern.test(str)
matchesSimple(str) ==
  LET body == stripV(str)
      d == firstIndexIn(body, {"-"})
      nums == split(SubSeq(body, 1, d - 1), ".")
      suffix == SubSeq(body, d + 1, Len(body))
  IN /\ \A i \in 1..Len(nums) : isDigits(nums[i])
     /\ (d > Len(body) \/ (suffix # <<>> /\ allIn(suffix, IdentChars)))

\* validateVersion: returns, or the ValidationError it throws
validateVersion(version) ==
  IF version.type # "string" \/ version.chars = <<>>
    THEN ValidationError("must be a string")
  ELSE
    LET v == trim(version.chars) IN
    IF Len(v) = 0 THEN ValidationError("empty")
    ELSE IF v = Latest THEN Accepted
    ELSE IF ~matchesSemver(v) /\ ~matchesSimple(v) THEN ValidationError("format")
    ELSE IF Len(v) > MAX_VERSION_LENGTH THEN ValidationError("too long")
    ELSE Accepted

\* normalizeVersion without the test that a digit follows the 'v'
normalizeVersionAnyV(version) ==
  IF version.type # "string" \/ version.chars = <<>> THEN Latest
  ELSE
    LET v == trim(version.chars) IN
    IF v = <<>> \/ v = Latest THEN Latest
    ELSE IF Head(v) = "v" THEN Tail(v)
    ELSE v

\* normalizeVersion
normalizeVersion(version) ==
  IF version.type # "string" \/ version.chars = <<>> THEN Latest
  ELSE
    LET v == trim(version.chars) IN
    IF v = <<>> \/ v = Latest THEN Latest
    ELSE IF Head(v) = "v" /\ Len(v) >= 2 /\ v[2] \in Digits THEN Tail(v)
    ELSE v

\* pattern.test(str) for a literal pattern with the i flag (pat in lower case)
containsIgnoreCase(str, pat) ==
  \E i \in 1..(Len(str) - Len(pat) + 1) :
    toLowerCase(SubSeq(str, i, i + Len(pat) - 1)) = pat

\* /on\w+\s*=/i.test(str)
matchesOnHandler(str) ==
  \E i \in 1..Len(str), j \in 1..Len(str), k \in 1..Len(str) :
    /\ i + 2 <= j
    /\ j < k
    /\ toLowerChar(str[i]) = "o"
    /\ toLowerChar(str[i + 1]) = "n"
    /\ \A m \in (i + 2)..j : str[m] \in WordChars
    /\ \A m \in (j + 1)..(k - 1) : str[m] \in Whitespace
    /\ str[k] = "="

dangerousPatterns ==
  {<<"<", "s", "c", "r", "i", "p", "t">>,
   <<"j", "a", "v", "a", "s", "c", "r", "i", "p", "t", ":">>,
   <<"d", "a", "t", "a", ":", "t", "e", "x", "t", "/", "h", "t", "m", "l">>}

\* validateSearchQuery: returns, or the ValidationError it throws
validateSearchQuery(query) ==
  IF query.type # "string" \/ query.chars = <<>>
    THEN ValidationError("required")
  ELSE
    LET q == trim(query.chars) IN
    IF Len(q) = 0 THEN ValidationError("empty")
    ELSE IF Len(q) < MIN_QUERY_LENGTH THEN ValidationError("too short")
    ELSE IF Len(q) > MAX_QUERY_LENGTH THEN ValidationError("too long")
    ELSE IF (\E pat \in dangerousPatterns : containsIgnoreCase(q, pat)) \/ matchesOnHandler(q)
      THEN ValidationError("invalid characters")
    ELSE Accepted

\* validateLimit: limit is [type, value, integer]
validateLimit(limit) ==
  IF limit.type # "number" THEN ValidationError("must be a number")
  ELSE IF ~limit.integer THEN ValidationError("must be an integer")
  ELSE IF limit.value < MIN_LIMIT THEN ValidationError("at least 1")
  ELSE IF limit.value > MAX_LIMIT THEN ValidationError("cannot exceed 250")
  ELSE Accepted

RECURSIVE collapseWhitespace(_)
\* replace(/\s+/g, ' ')
collapseWhitespace(str) ==
  IF str = <<>> THEN <<>>
  ELSE IF Head(str) \in Whitespace
    THEN <<" ">> \o collapseWhitespace(trimStart(str))
    ELSE <<Head(str)>> \o collapseWhitespace(Tail(str))

\* sanitizeSearchQuery
sanitizeSearchQuery(query) ==
  IF query.type # "string" \/ query.chars = <<>> THEN <<>>
  ELSE collapseWhitespace(trim(query.chars))

(***************************************************************************)
(* Documents.  A README or a values.yaml is the sequence of its lines,     *)
(* each line terminated by a newline.  A line is a record: a markdown      *)
(* heading of some level ("# title"), a code fence ("```lang"), a YAML     *)
(* comment ("# text"), a line of the YAML dependency list, or any other    *)
(* text; Text("") is the empty line.  Heading titles and fence languages   *)
(* are in lower case.                                                      *)
(***************************************************************************)
Heading(level, title) == [kind |-> "heading", level |-> level, text |-> title]

Fence(lang) == [kind |-> "fence", level |-> 0, text |-> lang]

Text(t) == [kind |-> "text", level |-> 0, text |-> t]

Badge(alt) == [kind |-> "badge", level |-> 0, text |-> alt]

Comment(t) == [kind |-> "comment", level |-> 0, text |-> t]

YamlLine(kind, t) == [kind |-> kind, level |-> 0, text |-> t]

IsEmptyLine(line) == line.kind = "text" /\ line.text = ""

\* the titles USAGE_SECTION_PATTERNS accepts after the #s of a heading
usageTitles ==
  {"usage", "use", "using", "how to use", "getting started", "quick start",
   "example", "examples", "basic usage", "installation", "installing", "install",
   "deploying", "deployment", "deploy", "helm install", "chart usage"}

isUsageHeader(line) == line.kind = "heading" /\ line.text \in usageTitles

RECURSIVE usageScanDeeperOnly(_, _, _, _, _, _)
\* the loop of extractUsageSections, ending a section only at a strictly shallower heading
usageScanDeeperOnly(lines, i, currentSection, inUsageSection, sectionLevel, sections) ==
  LET flushed == IF currentSection # <<>> THEN Append(sections, currentSection) ELSE sections IN
  IF i > Len(lines) THEN flushed
  ELSE
    LET line == lines[i] IN
    IF IsEmptyLine(line)
      THEN usageScanDeeperOnly(lines, i + 1, currentSection, inUsageSection, sectionLevel, sections)
    ELSE IF line.kind = "heading"
      THEN IF isUsageHeader(line)
             THEN usageScanDeeperOnly(lines, i + 1, <<line>>, TRUE, line.level, flushed)
           ELSE IF inUsageSection /\ line.level < sectionLevel
             THEN usageScanDeeperOnly(lines, i + 1, <<>>, FALSE, sectionLevel, flushed)
           ELSE IF inUsageSection
             THEN usageScanDeeperOnly(lines, i + 1, Append(currentSection, line), TRUE, sectionLevel, sections)
           ELSE usageScanDeeperOnly(lines, i + 1, currentSection, FALSE, sectionLevel, sections)
    ELSE IF inUsageSection
      THEN usageScanDeeperOnly(lines, i + 1, Append(currentSection, line), TRUE, sectionLevel, sections)
    ELSE usageScanDeeperOnly(lines, i + 1, currentSection, FALSE, sectionLevel, sections)

RECURSIVE usageScan(_, _, _, _, _, _)
\* the loop of extractUsageSections from line i on
usageScan(lines, i, currentSection, inUsageSection, sectionLevel, sections) ==
  LET flushed == IF currentSection # <<>> THEN Append(sections, currentSection) ELSE sections IN
  IF i > Len(lines) THEN flushed
  ELSE
    LET line == lines[i] IN
    IF IsEmptyLine(line)
      THEN usageScan(lines, i + 1, currentSection, inUsageSection, sectionLevel, sections)
    ELSE IF line.kind = "heading"
      THEN IF isUsageHeader(line)
             THEN usageScan(lines, i + 1, <<line>>, TRUE, line.level, flushed)
           ELSE IF inUsageSection /\ line.level <= sectionLevel
             THEN usageScan(lines, i + 1, <<>>, FALSE, sectionLevel, flushed)
           ELSE IF inUsageSection
             THEN usageScan(lines, i + 1, Append(currentSection, line), TRUE, sectionLevel, sections)
           ELSE usageScan(lines, i + 1, currentSection, FALSE, sectionLevel, sections)
    ELSE IF inUsageSection
      THEN usageScan(lines, i + 1, Append(currentSection, line), TRUE, sectionLevel, sections)
    ELSE usageScan(lines, i + 1, currentSection, FALSE, sectionLevel, sections)

extractUsageSections(content) == usageScan(content, 1, <<>>, FALSE, 0, <<>>)

\* normalizeLanguage
normalizeLanguage(language) ==
  IF language = "" THEN "text"
  ELSE CASE language = "js" -> "javascript"
         [] language = "ts" -> "typescript"
         [] language \in {"sh", "shell", "console"} -> "bash"
         [] language = "yml" -> "yaml"
         [] language = "md" -> "markdown"
         [] language = "dockerfile" -> "docker"
         [] language \in {"gotmpl", "go-template"} -> "helm"
         [] language = "py" -> "python"
         [] OTHER -> language

\* the three characters that open or close a code fence
FENCE_MARK == "~~~"

\* the characters of a line
lineString(line) ==
  CASE line.kind = "fence" -> FENCE_MARK \o line.text
    [] line.kind = "heading" -> SubSeq("######", 1, line.level) \o " " \o line.text
    [] line.kind = "comment" -> "# " \o line.text
    [] OTHER -> line.text

\* the strings of a run of lines
lineTexts(lines) == [i \in 1..Len(lines) |-> lineString(lines[i])]

RECURSIVE joinLines(_)
\* Array.prototype.join with a newline
joinLines(texts) ==
  IF texts = <<>> THEN ""
  ELSE IF Len(texts) = 1 THEN texts[1]
  ELSE texts[1] \o "\n" \o joinLines(Tail(texts))

RECURSIVE trimStartStr(_)
trimStartStr(s) ==
  IF Len(s) > 0 /\ Head(s) \in Whitespace THEN trimStartStr(Tail(s)) ELSE s

RECURSIVE trimEndStr(_)
trimEndStr(s) ==
  IF Len(s) > 0 /\ SubSeq(s, Len(s), Len(s)) \in Whitespace
    THEN trimEndStr(SubSeq(s, 1, Len(s) - 1))
    ELSE s

\* String.prototype.trim, on a string
trimStr(s) == trimEndStr(trimStartStr(s))

RECURSIVE squeeze(_)
\* replace(/\s+/g, ' '), on a string
squeeze(s) ==
  IF Len(s) = 0 THEN ""
  ELSE IF Head(s) \in Whitespace THEN " " \o squeeze(trimStartStr(s))
  ELSE Head(s) \o squeeze(Tail(s))

RECURSIVE codeBlocksFromOpen(_, _)
\* the code blocks of a section from line i on, a fence that is never closed
\* taking the rest of the section as its code
codeBlocksFromOpen(section, i) ==
  IF i > Len(section) THEN <<>>
  ELSE IF section[i].kind # "fence" THEN codeBlocksFromOpen(section, i + 1)
  ELSE
    LET J == {j \in (i + 1)..Len(section) : section[j].kind = "fence"}
        j == IF J = {} THEN Len(section) + 1 ELSE CHOOSE j \in J : \A m \in J : j <= m
        code == trimStr(joinLines(lineTexts(SubSeq(section, i + 1, j - 1))))
        example == [code |-> code,
                    language |-> normalizeLanguage(IF section[i].text = "" THEN "text"
                                                   ELSE section[i].text)]
    IN (IF code = "" THEN <<>> ELSE <<example>>) \o codeBlocksFromOpen(section, j + 1)

RECURSIVE codeBlocksFrom(_, _)
\* the matches of CODE_BLOCK_PATTERN in a section from line i on: an opening
\* fence closed by the next fence; blocks with an empty body are dropped.
\* The title and description of an example are not modelled.
codeBlocksFrom(section, i) ==
  IF i > Len(section) THEN <<>>
  ELSE IF section[i].kind # "fence" THEN codeBlocksFrom(section, i + 1)
  ELSE IF ~\E j \in (i + 1)..Len(section) : section[j].kind = "fence" THEN <<>>
  ELSE
    LET j == CHOOSE j \in (i + 1)..Len(section) :
               /\ section[j].kind = "fence"
               /\ \A m \in (i + 1)..(j - 1) : section[m].kind # "fence"
        code == trimStr(joinLines(lineTexts(SubSeq(section, i + 1, j - 1))))
        example == [code |-> code,
                    language |-> normalizeLanguage(IF section[i].text = "" THEN "text"
                                                   ELSE section[i].text)]
    IN (IF code = "" THEN <<>> ELSE <<example>>) \o codeBlocksFrom(section, j + 1)

extractCodeBlocksFromSection(section) == codeBlocksFrom(section, 1)

\* a codeHash that keeps the whitespace of the code
codeHashExact(code) == code

\* codeHash of deduplicateExamples
codeHash(code) == trimStr(squeeze(code))

RECURSIVE deduplicateFrom(_, _, _)
\* the loop of deduplicateExamples from example i on; the codes of unique are the set seen
deduplicateFrom(examples, i, unique) ==
  IF i > Len(examples) THEN unique
  ELSE IF \E u \in 1..Len(unique) : codeHash(unique[u].code) = codeHash(examples[i].code)
    THEN deduplicateFrom(examples, i + 1, unique)
    ELSE deduplicateFrom(examples, i + 1, Append(unique, examples[i]))

\* deduplicateExamples: the first example of each code is kept
deduplicateExamples(examples) == deduplicateFrom(examples, 1, <<>>)

MAX_README_EXAMPLES == 15

MAX_VALUES_EXAMPLES == 5

\* slice(0, n)
slice0(seq, n) == SubSeq(seq, 1, IF Len(seq) < n THEN Len(seq) ELSE n)

RECURSIVE flatten(_)
flatten(seqs) == IF seqs = <<>> THEN <<>> ELSE Head(seqs) \o flatten(Tail(seqs))

\* parseUsageExamples; content <<>> is the empty string
parseUsageExamples(readmeContent, includeExamples) ==
  IF ~includeExamples \/ readmeContent = <<>> THEN <<>>
  ELSE
    LET sections == extractUsageSections(readmeContent)
        examples == flatten([s \in 1..Len(sections) |-> extractCodeBlocksFromSection(sections[s])])
    IN slice0(deduplicateExamples(examples), MAX_README_EXAMPLES)

RECURSIVE valuesScan(_, _, _, _, _)
\* the loop of extractValuesDocumentation from line i on.  The title of an
\* example is not modelled.
valuesScan(lines, i, currentSection, currentComment, examples) ==
  IF i > Len(lines)
    THEN IF currentSection # <<>>
           THEN Append(examples,
                  [code |-> joinLines(lineTexts(currentSection)), language |-> "yaml",
                   description |-> IF currentComment = "" THEN None ELSE Some(currentComment)])
           ELSE examples
  ELSE
    LET line == lines[i] IN
    IF line.kind = "comment"
      THEN valuesScan(lines, i + 1, currentSection,
             IF line.text = "" THEN currentComment
             ELSE IF currentComment = "" THEN line.text
             ELSE currentComment \o " " \o line.text,
             examples)
    ELSE IF ~IsEmptyLine(line)
      THEN IF currentComment # ""
             THEN valuesScan(lines, i + 1, <<>>, "",
                    Append(examples,
                      [code |-> joinLines(lineTexts(Append(currentSection, line))), language |-> "yaml",
                       description |-> Some(currentComment)]))
             ELSE valuesScan(lines, i + 1, Append(currentSection, line), currentComment, examples)
    ELSE IF currentSection # <<>>
      THEN valuesScan(lines, i + 1, <<>>, "", examples)
      ELSE valuesScan(lines, i + 1, currentSection, currentComment, examples)

\* extractValuesDocumentation; content <<>> is the empty string
extractValuesDocumentation(valuesContent) ==
  IF valuesContent = <<>> THEN <<>>
  ELSE slice0(valuesScan(valuesContent, 1, <<>>, "", <<>>), MAX_VALUES_EXAMPLES)

\* currentDep of parseDependenciesFromYaml: <<>>, <<name>> or <<name, version>>
addDependency(dependencies, currentDep) ==
  IF Len(currentDep) = 2 THEN (currentDep[1] :> currentDep[2]) @@ dependencies ELSE dependencies

RECURSIVE depScan(_, _, _, _, _)
\* the lines dependencyPattern captures after "dependencies:" (a name line,
\* then optionally a version line, then optionally a repository line, any
\* number of times) and the loop over them
depScan(lines, i, allowed, currentDep, dependencies) ==
  IF i > Len(lines) THEN addDependency(dependencies, currentDep)
  ELSE
    LET line == lines[i] IN
    IF IsEmptyLine(line) THEN depScan(lines, i + 1, allowed, currentDep, dependencies)
    ELSE IF line.kind \notin allowed THEN addDependency(dependencies, currentDep)
    ELSE IF line.kind = "depname"
      THEN depScan(lines, i + 1, {"depname", "depversion", "deprepo"}, <<line.text>>,
                   addDependency(dependencies, currentDep))
    ELSE IF line.kind = "depversion"
      THEN depScan(lines, i + 1, {"depname", "deprepo"}, <<currentDep[1], line.text>>, dependencies)
    ELSE depScan(lines, i + 1, {"depname"}, currentDep, dependencies)

\* parseDependenciesFromYaml: the Record<string, string> as a function
parseDependenciesFromYaml(yamlContent) ==
  IF ~\E d \in 1..Len(yamlContent) : yamlContent[d].kind = "deps" THEN <<>>
  ELSE
    LET d == CHOOSE d \in 1..Len(yamlContent) :
               /\ yamlContent[d].kind = "deps"
               /\ \A m \in 1..(d - 1) : yamlContent[m].kind # "deps"
    IN depScan(yamlContent, d + 1, {"depname"}, <<>>, <<>>)

RECURSIVE collapseEmptyLines(_)
\* replace(/\n{3,}/g, '\n\n'): a run of empty lines becomes one empty line
collapseEmptyLines(lines) ==
  IF lines = <<>> THEN <<>>
  ELSE IF Len(lines) >= 2 /\ IsEmptyLine(lines[1]) /\ IsEmptyLine(lines[2])
    THEN collapseEmptyLines(Tail(lines))
    ELSE <<Head(lines)>> \o collapseEmptyLines(Tail(lines))

RECURSIVE dropLeadingEmpty(_)
dropLeadingEmpty(lines) ==
  IF lines # <<>> /\ IsEmptyLine(Head(lines)) THEN dropLeadingEmpty(Tail(lines)) ELSE lines

RECURSIVE dropTrailingEmpty(_)
dropTrailingEmpty(lines) ==
  IF lines # <<>> /\ IsEmptyLine(lines[Len(lines)])
    THEN dropTrailingEmpty(SubSeq(lines, 1, Len(lines) - 1))
    ELSE lines

MIN_ALT_TEXT == 3

\* cleanMarkdown: a badge line keeps only its alt text when that is longer
\* than 3 characters, runs of empty lines collapse, the result is trimmed.
\* The rewriting of relative links inside a line is not modelled.
cleanMarkdown(content) ==
  LET unbadged == [i \in 1..Len(content) |->
                     IF content[i].kind = "badge"
                       THEN Text(IF Len(content[i].text) > MIN_ALT_TEXT THEN content[i].text ELSE "")
                       ELSE content[i]]
  IN dropTrailingEmpty(dropLeadingEmpty(collapseEmptyLines(unbadged)))

MIN_DESCRIPTION_LINE == 20

MAX_DESCRIPTION == 500

NO_DESCRIPTION == "No description available"

NO_README == <<Text("No README available")>>

RECURSIVE descriptionScan(_, _, _)
\* the loop of extractDescription from line i on
descriptionScan(lines, i, description) ==
  IF i > Len(lines) THEN description
  ELSE
    LET line == lines[i]
        trimmed == lineString(line)
    IN
    IF IsEmptyLine(line) \/ line.kind \in {"heading", "comment"}
      THEN IF description # "" THEN description ELSE descriptionScan(lines, i + 1, description)
    ELSE IF line.kind = "badge" THEN descriptionScan(lines, i + 1, description)
    ELSE IF Len(trimmed) > MIN_DESCRIPTION_LINE
      THEN IF description = "" THEN descriptionScan(lines, i + 1, trimmed)
           ELSE IF Len(description) + Len(trimmed) < MAX_DESCRIPTION
             THEN descriptionScan(lines, i + 1, description \o " " \o trimmed)
           ELSE description
    ELSE descriptionScan(lines, i + 1, description)

\* extractDescription
extractDescription(content) ==
  LET description == descriptionScan(content, 1, "") IN
  IF description = "" THEN NO_DESCRIPTION ELSE description

(***************************************************************************)
(* The three tool operations.  Arguments are [type, chars] like the        *)
(* validators' inputs; a limit is [type, value, integer].                  *)
(***************************************************************************)
Str(chars) == [type |-> "string", chars |-> chars]

Undefined == [type |-> "undefined", chars |-> <<>>]

Num(n) == [type |-> "number", value |-> n, integer |-> TRUE]

NoLimit == [type |-> "undefined", value |-> 0, integer |-> FALSE]

\* JavaScript truthiness of a string-or-undefined argument
Truthy(arg) == arg.type = "string" /\ arg.chars # <<>>

\* a destructuring default: `x = d`
defaulted(arg, d) == IF arg.type = "undefined" THEN d ELSE arg

\* a boolean parameter with a default; flag is None when the caller omitted it
flagOr(flag, d) == IF flag = None THEN d ELSE flag[1]

\* the error object of a validator's throw
thrownBy(v) ==
  [class |-> v.error,
   statusCode |-> IF v.error = "InvalidPackageNameError" THEN Some(400) ELSE None,
   cause |-> v.reason]

\* generatePackageInfoKey; version <<>> is undefined or ''
generatePackageInfoKey(packageName, version) ==
  <<"pkg_info", packageName, IF version = <<>> THEN Latest ELSE version>>

\* generatePackageReadmeKey
generatePackageReadmeKey(packageName, version) ==
  <<"pkg_readme", packageName, IF version = <<>> THEN Latest ELSE version>>

BASE64_PREFIX == 16

\* Buffer.from(query).toString('base64').substring(0, 16): sixteen base64
\* characters encode the first twelve bytes, and the padding of a shorter
\* query tells its length, so for ASCII queries two hashes are equal exactly
\* when the first twelve characters are
queryHash(query) ==
  LET bytes == (BASE64_PREFIX * 3) \div 4 IN
  SubSeq(query, 1, IF Len(query) < bytes THEN Len(query) ELSE bytes)

\* generateSearchKey
generateSearchKey(query, limit) == <<"search", queryHash(query), limit>>

SEARCH_TTL == 300000

\* createMockDownloadStats
createMockDownloadStats(stars) ==
  [last_day |-> stars, last_week |-> stars * 7, last_month |-> stars * 30]

\* maintainers?.map(m => ({name, email})) || []
authorsOf(packageInfo) ==
  [i \in 1..Len(packageInfo.maintainers) |->
     [name |-> packageInfo.maintainers[i].name, email |-> packageInfo.maintainers[i].email]]

\* the RepositoryInfo both tools build
repositoryInfoOf(packageInfo) ==
  IF packageInfo.repository = None THEN None
  ELSE Some([type |-> "git", url |-> packageInfo.repository[1].url,
             directory |-> packageInfo.relative_path])

\* [repo, chart] = packageName.split('/'), each undefined when missing
segment(packageName, n) ==
  LET parts == split(packageName, "/") IN
  IF Len(parts) >= n THEN parts[n] ELSE <<"undefined">>

\* createInstallationInfo; a command is the sequence of the pieces of its template
createInstallationInfo(packageName, packageInfo, version) ==
  LET repo == segment(packageName, 1)
      chart == segment(packageName, 2)
      repoAdd == IF packageInfo.repository # None
                    /\ packageInfo.repository[1].url # packageInfo.repository[1].name
                   THEN <<<<"helm repo add ", repo, " ", packageInfo.repository[1].url>>>>
                   ELSE <<>>
      versioned == IF version # Latest
                     THEN <<<<"helm install my-", chart, " ", packageName,
                              " --version ", packageInfo.version>>>>
                     ELSE <<>>
      alternatives == repoAdd \o versioned
  IN [command |-> <<"helm install my-", chart, " ", packageName>>,
      alternatives |-> IF alternatives # <<>> THEN Some(alternatives) ELSE None]

\* a not-found response that claims the package exists
readmeNotFoundExists(package_name, normalizedVersion) ==
  [package_name |-> package_name, version |-> normalizedVersion, description |-> "",
   readme_content |-> <<>>, usage_examples |-> <<>>,
   installation |-> [command |-> <<>>, alternatives |-> None],
   basic_info |-> [name |-> package_name, version |-> normalizedVersion,
                   description |-> "", maintainers |-> <<>>, keywords |-> <<>>],
   repository |-> None, exists |-> TRUE]

\* notFoundResponse of getPackageReadme
readmeNotFound(package_name, normalizedVersion) ==
  [package_name |-> package_name,
   version |-> normalizedVersion,
   description |-> "",
   readme_content |-> <<>>,
   usage_examples |-> <<>>,
   installation |-> [command |-> <<>>, alternatives |-> None],
   basic_info |-> [name |-> package_name, version |-> normalizedVersion,
                   description |-> "", maintainers |-> <<>>, keywords |-> <<>>],
   repository |-> None,
   exists |-> FALSE]

\* response of getPackageReadme; fields copied verbatim from packageInfo
\* (app_version, homepage, sources, license, keywords, annotations) are left out
readmeResponse(package_name, packageInfo, normalizedVersion, readmeContent, usageExamples) ==
  LET cleanedReadme == cleanMarkdown(IF readmeContent = <<>> THEN NO_README ELSE readmeContent) IN
  [package_name |-> package_name,
   version |-> packageInfo.version,
   description |-> IF packageInfo.description # "" THEN packageInfo.description
                   ELSE extractDescription(cleanedReadme),
   readme_content |-> cleanedReadme,
   usage_examples |-> usageExamples,
   installation |-> createInstallationInfo(package_name, packageInfo, normalizedVersion),
   basic_info |-> [name |-> packageInfo.name, version |-> packageInfo.version,
                   description |-> packageInfo.description,
                   maintainers |-> authorsOf(packageInfo), keywords |-> <<>>],
   repository |-> repositoryInfoOf(packageInfo),
   exists |-> TRUE]

\* a not-found response that keeps mock statistics
infoNotFoundWithStats(package_name) ==
  [package_name |-> package_name, latest_version |-> <<>>, description |-> "", author |-> "",
   maintainers |-> <<>>, keywords |-> <<>>, dependencies |-> None, dev_dependencies |-> None,
   download_stats |-> createMockDownloadStats(1), repository |-> None, exists |-> FALSE]

\* notFoundResponse of getPackageInfo
infoNotFound(package_name) ==
  [package_name |-> package_name,
   latest_version |-> <<>>,
   description |-> "",
   author |-> "",
   maintainers |-> <<>>,
   keywords |-> <<>>,
   dependencies |-> None,
   dev_dependencies |-> None,
   download_stats |-> [last_day |-> 0, last_week |-> 0, last_month |-> 0],
   repository |-> None,
   exists |-> FALSE]

\* response of getPackageInfo; fields copied verbatim from packageInfo
\* (license, keywords, app_version, deprecated, signed) are left out
infoResponse(package_name, packageInfo, include_dependencies, dependencies) ==
  LET maintainers == authorsOf(packageInfo) IN
  [package_name |-> package_name,
   latest_version |-> packageInfo.version,
   description |-> packageInfo.description,
   author |-> IF maintainers # <<>> /\ maintainers[1].name # "" THEN maintainers[1].name
              ELSE "Unknown",
   maintainers |-> maintainers,
   keywords |-> <<>>,
   dependencies |-> IF include_dependencies THEN dependencies ELSE None,
   dev_dependencies |-> None,
   download_stats |-> createMockDownloadStats(IF packageInfo.stars = None THEN 0
                                              ELSE packageInfo.stars[1]),
   repository |-> repositoryInfoOf(packageInfo),
   exists |-> TRUE]

\* one PackageSearchResult; fields copied verbatim from pkg are left out
searchResult(pkg) ==
  [name |-> <<pkg.repository[1].name, "/", pkg.name>>,
   version |-> pkg.version,
   description |-> pkg.description,
   maintainers |-> authorsOf(pkg),
   stars |-> pkg.stars]

\* response of searchPackages
searchResponse(sanitizedQuery, packages) ==
  [query |-> sanitizedQuery,
   total |-> Len(packages),
   packages |-> [i \in 1..Len(packages) |-> searchResult(packages[i])]]

(***************************************************************************)
(* What the registry and GitHub can answer.                                *)
(***************************************************************************)
\* how an awaited promise settles: with a value, or with an error
Resolve(v) == [kind |-> "return", value |-> <<v>>, error |-> None]

Reject(e) == [kind |-> "throw", value |-> <<>>, error |-> Some(e)]

MaxCalls == 2

MaxTicks == 2

ReadmeWithUsage ==
  <<Heading(1, "chart"), Text("A chart for the model registry."),
    Heading(2, "usage"), Fence("sh"), Text("helm install my-b a/b"), Fence("")>>

ReadmePlain == <<Heading(1, "chart"), Text("Only prose, no usage section.")>>

ValuesWithDeps ==
  <<Comment("number of replicas"), YamlLine("value", "replicaCount: 1"), Text(""),
    YamlLine("deps", "dependencies:"), YamlLine("depname", "redis"),
    YamlLine("depversion", "1.0.0")>>

\* ArtifactHubPackage objects: one with everything, one with neither README,
\* description, stars nor maintainers
PkgFull ==
  [name |-> "b", version |-> <<"1">>, description |-> "Full chart",
   readme |-> ReadmeWithUsage,
   repository |-> Some([name |-> "a", url |-> "https://charts.example/a"]),
   relative_path |-> "charts/b", stars |-> Some(2),
   maintainers |-> <<[name |-> "m", email |-> "m@example"]>>]

PkgBare ==
  [name |-> "b", version |-> <<"2">>, description |-> "",
   readme |-> <<>>,
   repository |-> Some([name |-> "a", url |-> "https://github.com/o/r"]),
   relative_path |-> "", stars |-> None,
   maintainers |-> <<>>]

Packages == {PkgFull, PkgBare}

ToolStatuses == {200, 404, 429, 503}

\* the outcomes of fetch the tool operations are checked against
ToolFetchOutcomes ==
  {f \in FetchOutcomes : f.kind = "response" => (f.status \in ToolStatuses /\ f.body = "body1")}

\* the errors a request wrapped in withRetry ends with: the error of its last attempt
RequestErrors ==
  {o.error[1] : o \in {a \in {apiAttempt(f) : f \in ToolFetchOutcomes} : a.kind = "throw"}}

\* how artifactHubClient.getPackageInfo(packageName, version) settles
ClientInfoOutcomes(version) ==
  {Resolve(p) : p \in Packages}
  \cup {Reject(e) : e \in RequestErrors}
  \cup (IF version # Latest THEN {Reject(VersionNotFoundError)} ELSE {})

\* how githubApi.getReadmeContent settles
GithubOutcomes ==
  {Resolve(Some(ReadmePlain)), Resolve(None), Reject(NetworkError("fetch failed"))}

\* how artifactHubClient.getPackageValues settles
ValuesOutcomes ==
  {Resolve(Some(ValuesWithDeps)), Resolve(None), Reject(NetworkError("Request timeout"))}

\* the JSON body of a search answer: Some(packages), or None when data.packages is no array
SearchBodies == {None, Some(<<>>), Some(<<PkgFull>>)}

\* how artifactHubClient.searchPackages settles: a malformed body becomes
\* {data: {packages: []}}; the value is searchResults?.data?.packages
clientSearch(body) == Resolve(Some(IF body = None THEN <<>> ELSE body[1]))

ClientSearchOutcomes ==
  {clientSearch(body) : body \in SearchBodies}
  \cup {Reject(e) : e \in RequestErrors}

PackageNameArgs == {Str(<<"a", "/", "b">>), Str(<<"a">>)}

VersionArgs == {Undefined, Str(<<"v", "1">>), Str(<<"x">>), Str(<<" ">>)}

FlagArgs == {None, Some(FALSE)}

QueryArgs == {Str(<<"a", "b">>), Str(<<" ", "a", "b">>), Str(<<"a">>)}

LimitArgs == {NoLimit, Num(5), Num(0)}

\* the CacheOptions of the singleton: the environment's defaults, or a small CACHE_MAX_SIZE
SMALL_MAX_SIZE == ENTRY_SIZE_ESTIMATE - 1

ToolCacheOptions ==
  {[ttl |-> Some(DEFAULT_TTL), maxSize |-> Some(DEFAULT_MAX_SIZE)],
   [ttl |-> Some(DEFAULT_TTL), maxSize |-> Some(SMALL_MAX_SIZE)]}

\* every cache key a tool invocation can use
ToolKeys ==
  {generatePackageInfoKey(n.chars, <<>>) : n \in PackageNameArgs}
  \cup {generatePackageReadmeKey(n.chars, normalizeVersion(defaulted(v, Str(Latest)))) :
          n \in PackageNameArgs, v \in VersionArgs}
  \cup {generateSearchKey(sanitizeSearchQuery(q), defaulted(l, Num(DEFAULT_LIMIT)).value) :
          q \in QueryArgs, l \in LimitArgs}

(***************************************************************************)
(* The tool operations as a state machine.  One invocation runs at a time; *)
(* it is suspended at each await of a client call, and the clock and the   *)
(* cache's sweep timer run meanwhile.                                      *)
(***************************************************************************)
ToolOnly == UNCHANGED <<last, lastSet, retryVars, validVars, githubVars, lookupVars, other>>

ToolsInit ==
  /\ options \in ToolCacheOptions
  /\ data = <<>>
  /\ now = 0
  /\ last = NoOp
  /\ lastSet = None
  /\ stored = [k \in ToolKeys |-> None]
  /\ RetryIdle
  /\ ValidIdle
  /\ ToolsIdle
  /\ GithubIdle
  /\ LookupIdle

CanCall == call.pc \in {"idle", "done"} /\ ncalls < MaxCalls

\* the invocation fails validation: it throws before the cache is read
rejectCall(c, v) == [c EXCEPT !.pc = "done", !.result = Reject(thrownBy(v))]

\* a lookup that never finds anything
lookedUpMiss(c, cacheKey, cached, awaiting) ==
  [c EXCEPT !.key = cacheKey,
            !.lookupAt = now,
            !.fresh = \E i \in 1..Len(data) : data[i].key = cacheKey /\ ~Expired(data[i], now),
            !.pc = awaiting]

\* the invocation after `cached = cache.get(cacheKey)`: on a hit it returns cached
lookedUp(c, cacheKey, cached, awaiting) ==
  [c EXCEPT !.key = cacheKey,
            !.lookupAt = now,
            !.fresh = \E i \in 1..Len(data) : data[i].key = cacheKey /\ ~Expired(data[i], now),
            !.hit = cached.ret # None,
            !.pc = IF cached.ret # None THEN "done" ELSE awaiting,
            !.result = IF cached.ret # None THEN Resolve(cached.ret[1]) ELSE None]

\* cache.set(cacheKey, response, ttl) followed by `return response`
storeAndReturn(c, response, ttl) ==
  /\ data' = set(data, c.key, response, ttl, now, options)
  /\ stored' = [stored EXCEPT ![c.key] =
                  Some([value |-> response, ttlArg |-> ttl,
                        ttl |-> entryTtl(ttl, options), at |-> now])]
  /\ call' = [c EXCEPT !.pc = "done", !.result = Resolve(response)]

\* `return response` without caching
justReturn(c, response) ==
  /\ call' = [c EXCEPT !.pc = "done", !.result = Resolve(response)]
  /\ UNCHANGED <<data, stored>>

\* the invocation suspends at the next await
suspend(c, awaiting) ==
  /\ call' = [c EXCEPT !.pc = awaiting]
  /\ UNCHANGED <<data, stored>>

\* getPackageReadme without its call of validateVersion
versionIsValidatedNever(version) == FALSE

\* `if (version && version !== 'latest')`, the guard of validateVersion(version)
versionIsValidated(version) == Truthy(version) /\ version.chars # Latest

\* getPackageReadme up to its first await, for a package name and a version of the given sets
callReadme(names, versions) ==
  \E package_name \in names, versionArg \in versions, include_examples \in FlagArgs :
    LET version == defaulted(versionArg, Str(Latest))
        normalizedVersion == normalizeVersion(version)
        c == [NoCall EXCEPT !.op = "readme", !.package_name = package_name.chars,
                            !.version = normalizedVersion,
                            !.args = [NoArgs EXCEPT !.package_name = package_name,
                                                    !.version = version],
                            !.flag = flagOr(include_examples, TRUE)]
        nameCheck == validatePackageName(package_name)
        versionCheck == IF versionIsValidated(version)
                          THEN validateVersion(version) ELSE Accepted
        cacheKey == generatePackageReadmeKey(package_name.chars, normalizedVersion)
        cached == get(data, cacheKey, now)
    IN /\ CanCall
       /\ ncalls' = ncalls + 1
       /\ IF nameCheck.kind = "throw"
            THEN call' = rejectCall(c, nameCheck) /\ data' = data
          ELSE IF versionCheck.kind = "throw"
            THEN call' = rejectCall(c, versionCheck) /\ data' = data
          ELSE call' = lookedUp(c, cacheKey, cached, "awaitInfo") /\ data' = cached.data
       /\ UNCHANGED <<options, now, stored, ticks>>
       /\ ToolOnly

CallReadme == callReadme(PackageNameArgs, VersionArgs)

\* getPackageInfo up to its first await, for a package name of the given set
callInfo(names) ==
  \E package_name \in names, include_dependencies \in FlagArgs,
     include_dev_dependencies \in {None, Some(TRUE)} :
    LET c == [NoCall EXCEPT !.op = "info", !.package_name = package_name.chars,
                            !.version = Latest,
                            !.args = [NoArgs EXCEPT !.package_name = package_name],
                            !.flag = flagOr(include_dependencies, TRUE)]
        nameCheck == validatePackageName(package_name)
        cacheKey == generatePackageInfoKey(package_name.chars, <<>>)
        cached == get(data, cacheKey, now)
    IN /\ CanCall
       /\ ncalls' = ncalls + 1
       /\ IF nameCheck.kind = "throw"
            THEN call' = rejectCall(c, nameCheck) /\ data' = data
            ELSE call' = lookedUp(c, cacheKey, cached, "awaitInfo") /\ data' = cached.data
       /\ UNCHANGED <<options, now, stored, ticks>>
       /\ ToolOnly

CallInfo == callInfo(PackageNameArgs)

\* searchPackages up to its await, for a query and a limit of the given sets
callSearch(queries, limits) ==
  \E query \in queries, limitArg \in limits :
    LET limit == defaulted(limitArg, Num(DEFAULT_LIMIT))
        sanitizedQuery == sanitizeSearchQuery(query)
        c == [NoCall EXCEPT !.op = "search", !.query = sanitizedQuery, !.limit = limit.value,
                            !.args = [NoArgs EXCEPT !.query = query, !.limit = limit]]
        queryCheck == validateSearchQuery(query)
        limitCheck == validateLimit(limit)
        cacheKey == generateSearchKey(sanitizedQuery, limit.value)
        cached == get(data, cacheKey, now)
    IN /\ CanCall
       /\ ncalls' = ncalls + 1
       /\ IF queryCheck.kind = "throw"
            THEN call' = rejectCall(c, queryCheck) /\ data' = data
          ELSE IF limitCheck.kind = "throw"
            THEN call' = rejectCall(c, limitCheck) /\ data' = data
          ELSE call' = lookedUp(c, cacheKey, cached, "awaitSearch") /\ data' = cached.data
       /\ UNCHANGED <<options, now, stored, ticks>>
       /\ ToolOnly

CallSearch == callSearch(QueryArgs, LimitArgs)

\* getReadmeAndExamples once readmeContent is known
afterReadmeContent(c, readmeContent) ==
  IF c.flag
    THEN suspend([c EXCEPT !.readme = readmeContent], "awaitValues")
    ELSE storeAndReturn(c, readmeResponse(c.package_name, c.pkg[1], c.version, readmeContent, <<>>),
                        None)

\* `await artifactHubClient.getPackageInfo(...)` settles, in either tool
InfoSettles ==
  \E o \in ClientInfoOutcomes(call.version) :
    LET c == [call EXCEPT !.ext = @ + 1,
                          !.infoError = o.error,
                          !.pkg = o.value]
    IN /\ call.pc = "awaitInfo"
       /\ IF o.kind = "throw"
            THEN justReturn(c, IF c.op = "readme" THEN readmeNotFound(c.package_name, c.version)
                               ELSE infoNotFound(c.package_name))
          ELSE IF c.op = "readme"
            THEN IF o.value[1].readme = <<>> /\ o.value[1].repository # None
                    /\ o.value[1].repository[1].url # ""
                   THEN suspend(c, "awaitGithub")
                   ELSE afterReadmeContent(c, o.value[1].readme)
          ELSE IF c.flag
            THEN suspend(c, "awaitValues")
            ELSE storeAndReturn(c, infoResponse(c.package_name, o.value[1], c.flag, None), None)
       /\ UNCHANGED <<options, now, ncalls, ticks>>
       /\ ToolOnly

\* `await githubApi.getReadmeContent(...)` settles in getReadmeFromGitHub
GithubSettles ==
  \E o \in GithubOutcomes :
    LET c == [call EXCEPT !.ext = @ + 1]
        githubReadme == IF o.kind = "return" /\ o.value[1] # None THEN o.value[1][1] ELSE <<>>
    IN /\ call.pc = "awaitGithub"
       /\ afterReadmeContent(c, githubReadme)
       /\ UNCHANGED <<options, now, ncalls, ticks>>
       /\ ToolOnly

\* `await artifactHubClient.getPackageValues(...)` settles, in getUsageExamples
\* or in getDependencies
ValuesSettles ==
  \E o \in ValuesOutcomes :
    LET c == [call EXCEPT !.ext = @ + 1]
        valuesContent == IF o.kind = "return" /\ o.value[1] # None THEN o.value[1][1] ELSE <<>>
        examples == parseUsageExamples(c.readme, TRUE)
                    \o (IF valuesContent # <<>> THEN extractValuesDocumentation(valuesContent)
                        ELSE <<>>)
        dependencies == IF valuesContent # <<>> THEN Some(parseDependenciesFromYaml(valuesContent))
                        ELSE None
    IN /\ call.pc = "awaitValues"
       /\ IF c.op = "readme"
            THEN storeAndReturn(c, readmeResponse(c.package_name, c.pkg[1], c.version,
                                                  c.readme, examples), None)
            ELSE storeAndReturn(c, infoResponse(c.package_name, c.pkg[1], c.flag, dependencies),
                                None)
       /\ UNCHANGED <<options, now, ncalls, ticks>>
       /\ ToolOnly

\* `await artifactHubClient.searchPackages(...)` settles
SearchSettles ==
  \E o \in ClientSearchOutcomes, body \in SearchBodies :
    LET c == [call EXCEPT !.ext = @ + 1, !.searchError = o.error,
                          !.malformed = (o.kind = "return" /\ body = None)] IN
    /\ o.kind = "return" => o = clientSearch(body)
    /\ o.kind = "throw" => body = None
    /\ call.pc = "awaitSearch"
    /\ IF o.kind = "throw"
         THEN /\ call' = [c EXCEPT !.pc = "done", !.result = Reject(o.error[1])]
              /\ UNCHANGED <<data, stored>>
       ELSE IF o.value[1] = None
         THEN justReturn(c, searchResponse(c.query, <<>>))
       ELSE storeAndReturn(c, searchResponse(c.query, o.value[1][1]), Some(SEARCH_TTL))
    /\ UNCHANGED <<options, now, ncalls, ticks>>
    /\ ToolOnly

\* time passes: a millisecond, the search TTL, or the default TTL
ToolTick ==
  \E d \in {1, SEARCH_TTL, DEFAULT_TTL} :
    /\ ticks < MaxTicks
    /\ ticks' = ticks + 1
    /\ now' = now + d
    /\ UNCHANGED <<options, data, stored, call, ncalls>>
    /\ ToolOnly

\* the cache's sweep timer fires
ToolSweep ==
  /\ data' = cleanup(data, now)
  /\ UNCHANGED <<options, now, stored, call, ncalls, ticks>>
  /\ ToolOnly

ToolsNext ==
  \/ CallReadme
  \/ CallInfo
  \/ CallSearch
  \/ InfoSettles
  \/ GithubSettles
  \/ ValuesSettles
  \/ SearchSettles
  \/ ToolTick
  \/ ToolSweep

SpecTools == ToolsInit /\ [][ToolsNext]_vars

(***************************************************************************)
(* Claims about the tool operations.                                       *)
(***************************************************************************)
\* the response a finished invocation returned
returned == call.result.value[1]

Finished == call.pc = "done"

\* C3: an invocation of getPackageReadme, getPackageInfo or searchPackages
\* that finds a present, unexpired entry under its key returns exactly the
\* response the earlier invocation stored and returned, and calls neither the
\* registry nor GitHub.
C3_IdempotentThroughCache ==
  (Finished /\ call.fresh) =>
    /\ call.result.kind = "return"
    /\ call.ext = 0
    /\ stored[call.key] # None
    /\ returned = stored[call.key][1].value

C3_Witness ==
  /\ Finished
  /\ call.op = "readme"
  /\ call.fresh
  /\ call.ext = 0
  /\ returned.exists
  /\ returned.usage_examples # <<>>

\* C4: when the registry's info call fails, for whatever reason, getPackageInfo
\* and getPackageReadme return (they do not throw) a response with
\* exists = false, every descriptive string field empty, every list empty and
\* the download statistics zero; only the identity of the request
\* (package_name, and the requested version in getPackageReadme) is echoed.
C4_NotFoundContract ==
  (Finished /\ call.infoError # None) =>
    /\ call.result.kind = "return"
    /\ ~returned.exists
    /\ returned.package_name = call.package_name
    /\ returned.description = ""
    /\ returned.repository = None
    /\ IF call.op = "info"
         THEN /\ returned.latest_version = <<>>
              /\ returned.author = ""
              /\ returned.maintainers = <<>>
              /\ returned.keywords = <<>>
              /\ returned.dependencies = None
              /\ returned.download_stats = [last_day |-> 0, last_week |-> 0, last_month |-> 0]
         ELSE /\ returned.version = call.version
              /\ returned.readme_content = <<>>
              /\ returned.usage_examples = <<>>
              /\ returned.installation.command = <<>>
              /\ returned.basic_info.description = ""
              /\ returned.basic_info.maintainers = <<>>

C4_Witness ==
  /\ Finished
  /\ call.op = "info"
  /\ call.infoError = Some(RateLimitError)
  /\ call.ext = 1
  /\ ~returned.exists

\* what the registry client reported to the invocation, if it failed
clientError == IF call.op = "search" THEN call.searchError ELSE call.infoError

\* C5 as stated: when the registry client reports package-not-found, each of
\* the three operations returns a response and none throws.
C5_AllThreeReturnAsStated ==
  (Finished /\ clientError = Some(PackageNotFoundError)) => call.result.kind = "return"

\* C5: when the registry client reports package-not-found, getPackageReadme
\* and getPackageInfo return a response with exists = false and do not throw,
\* while searchPackages throws that error to its caller and caches nothing.
C5_SoftFailExceptSearch ==
  (Finished /\ clientError = Some(PackageNotFoundError)) =>
    IF call.op = "search"
      THEN /\ call.result = Reject(PackageNotFoundError)
           /\ call.key \notin MapKeys(data)
      ELSE /\ call.result.kind = "return"
           /\ ~returned.exists
           /\ returned.description = ""

C5_Witness ==
  /\ Finished
  /\ call.op = "search"
  /\ call.searchError = Some(PackageNotFoundError)
  /\ call.result.kind = "throw"

\* C7: a getPackageInfo invocation with include_dependencies = false returns
\* a response whose dependencies field is undefined.
C7_NoDependenciesWhenExcluded ==
  (Finished /\ call.op = "info" /\ ~call.flag /\ call.result.kind = "return") =>
    returned.dependencies = None

\* C8: a getPackageReadme invocation with include_examples = false returns a
\* response whose usage_examples list is empty.
C8_NoExamplesWhenExcluded ==
  (Finished /\ call.op = "readme" /\ ~call.flag /\ call.result.kind = "return") =>
    returned.usage_examples = <<>>

\* the time the caching strategy keeps a response of the tool that owns the key
strategyTtl(key) == IF key[1] = "search" THEN SEARCH_TTL ELSE defaultTtl(options)

\* what an identical invocation made now would get from the cache
servedNow(key) == get(data, key, now).ret

\* a finished invocation that was not served from the cache contacted the registry
MissContactsRegistry ==
  (Finished /\ call.key # <<>> /\ ~call.hit) => call.ext >= 1

\* C9 as stated: a stored response is served from the cache exactly while at
\* most 300000 ms (searchPackages) or the default TTL (getPackageInfo,
\* getPackageReadme) have passed since it was stored.
C9_ServedForTtlAsStated ==
  /\ \A key \in ToolKeys :
       stored[key] # None =>
         (servedNow(key) # None <=> now <= stored[key][1].at + strategyTtl(key))
  /\ MissContactsRegistry

\* C9: a stored response is never served after 300000 ms (searchPackages) or
\* the default TTL (getPackageInfo, getPackageReadme) have passed since it was
\* stored, and until then it is served, unchanged, as long as the size-based
\* eviction of Cache.set has not removed its entry; an invocation that is not
\* served from the cache contacts the registry.
C9_ServedForTtlUnlessEvicted ==
  /\ \A key \in ToolKeys :
       stored[key] # None =>
         /\ servedNow(key) # None =>
              /\ now <= stored[key][1].at + strategyTtl(key)
              /\ servedNow(key) = Some(stored[key][1].value)
         /\ (now <= stored[key][1].at + strategyTtl(key) /\ key \in MapKeys(data)) =>
              servedNow(key) # None
  /\ MissContactsRegistry

C9_Witness ==
  /\ Finished
  /\ call.op = "search"
  /\ call.hit
  /\ stored[call.key] # None
  /\ call.lookupAt = stored[call.key][1].at + SEARCH_TTL

(***************************************************************************)
(* normalizeVersion applied to one argument: every string of up to         *)
(* MaxVersionLen characters over a small alphabet, a few longer versions,  *)
(* and values that are not strings.                                        *)
(***************************************************************************)
MaxVersionLen == 3

VersionAlphabet == {"v", "1", " ", "a"}

VersionStrings ==
  UNION {[1..n -> VersionAlphabet] : n \in 0..MaxVersionLen}
  \cup {Latest, <<" ">> \o Latest \o <<" ">>, <<"v">> \o Latest,
        <<"v", "1", ".", "2", ".", "3">>, <<"V", "1", ".", "2">>,
        <<"\t", "v", "2", ".", "0", "\n">>, <<"v", ".", "1">>}

VersionInputs ==
  {[type |-> "string", chars |-> c] : c \in VersionStrings}
  \cup {[type |-> t, chars |-> <<>>] : t \in {"undefined", "object", "number"}}

VersionInit ==
  /\ options = [ttl |-> None, maxSize |-> None]
  /\ data = <<>>
  /\ now = 0
  /\ last = NoOp
  /\ lastSet = None
  /\ stored = [k \in CacheKeys |-> None]
  /\ RetryIdle
  /\ input \in VersionInputs
  /\ verdict = None
  /\ ToolsIdle
  /\ GithubIdle
  /\ LookupIdle

NormalizeVersion ==
  /\ verdict = None
  /\ verdict' = Some(normalizeVersion(input))
  /\ UNCHANGED input
  /\ ValidOnly

VersionNext == NormalizeVersion

SpecVersion == VersionInit /\ [][VersionNext]_vars

\* a leading 'v' followed by a digit
vBeforeDigit(str) == Len(str) >= 2 /\ str[1] = "v" /\ str[2] \in Digits

(***************************************************************************)
(* C11 as stated: normalizeVersion maps "latest", the empty string and     *)
(* undefined to "latest"; for any other input it strips a leading 'v'      *)
(* exactly when that 'v' is followed by a digit, and otherwise returns the *)
(* trimmed input unchanged.                                                *)
(***************************************************************************)
C11_NormalizeAsStated ==
  (verdict # None /\ input.type \in {"string", "undefined"}) =>
    verdict[1] =
      IF input.type = "undefined" \/ input.chars = <<>> \/ input.chars = Latest
        THEN Latest
      ELSE IF vBeforeDigit(trim(input.chars)) THEN Tail(trim(input.chars))
      ELSE trim(input.chars)

(***************************************************************************)
(* C11 amended: normalizeVersion maps to "latest" every value that is not  *)
(* a string and every string that is empty or "latest" once its leading    *)
(* and trailing whitespace is removed; for any other string it returns the *)
(* trimmed input without its leading 'v' when that 'v' is followed by a    *)
(* digit, and the trimmed input unchanged otherwise.                       *)
(***************************************************************************)
C11_NormalizeVersion ==
  verdict # None =>
    verdict[1] =
      IF input.type # "string" \/ trim(input.chars) \in {<<>>, Latest} THEN Latest
      ELSE IF vBeforeDigit(trim(input.chars)) THEN Tail(trim(input.chars))
      ELSE trim(input.chars)

\* a padded "v1" was normalized to "1"
C11_Witness ==
  /\ verdict # None
  /\ input.type = "string"
  /\ input.chars = <<" ", "v", "1">>
  /\ verdict[1] = <<"1">>

(***************************************************************************)
(* parseUsageExamples applied to one README.  A README is a sequence of up *)
(* to MaxBlocks blocks: a heading (a usage heading of level 2, a usage     *)
(* heading of level 3, other headings of levels 1 to 3), a line of prose,  *)
(* an empty line, a code block (the same command written with different    *)
(* whitespace, a two-line block, an empty block), or a fence that is       *)
(* opened and never closed.                                                *)
(***************************************************************************)
MaxBlocks == 4

ReadmeBlocks ==
  {<<Heading(2, "usage")>>, <<Heading(3, "examples")>>, <<Heading(3, "notes")>>,
   <<Heading(2, "license")>>, <<Heading(1, "chart")>>,
   <<Text("Some prose.")>>, <<Text("")>>,
   <<Fence("sh"), Text("helm install x"), Fence("")>>,
   <<Fence("bash"), Text("  helm  install\tx "), Fence("")>>,
   <<Fence("yaml"), Text("a: 1"), Text("b: 2"), Fence("")>>,
   <<Fence(""), Fence("")>>,
   <<Fence("sh"), Text("kubectl get pods")>>}

\* a usage section with one code block more than parseUsageExamples returns, all
\* different, and then the last of them once more
LongReadme ==
  <<Heading(2, "usage")>>
  \o flatten([i \in 1..(MAX_README_EXAMPLES + 1) |->
                <<Fence("sh"), Text("helm get " \o SubSeq("abcdefghijklmnopq", 1, i)), Fence("")>>])
  \o <<Fence("sh"), Text(" helm  get " \o SubSeq("abcdefghijklmnopq", 1, MAX_README_EXAMPLES + 1)),
       Fence("")>>

ReadmeDocs ==
  {flatten(bs) : bs \in UNION {[1..n -> ReadmeBlocks] : n \in 0..MaxBlocks}} \cup {LongReadme}

ReadmeInit ==
  /\ options = [ttl |-> None, maxSize |-> None]
  /\ data = <<>>
  /\ now = 0
  /\ last = NoOp
  /\ lastSet = None
  /\ stored = [k \in CacheKeys |-> None]
  /\ RetryIdle
  /\ input \in ReadmeDocs
  /\ verdict = None
  /\ ToolsIdle
  /\ GithubIdle
  /\ LookupIdle

\* parseUsageExamples(readmeContent), with the sections and the code blocks of
\* each section it went through
ParseUsageExamples ==
  /\ verdict = None
  /\ verdict' =
       LET sections == extractUsageSections(input) IN
       Some([sections |-> sections,
             blocks |-> [k \in 1..Len(sections) |-> extractCodeBlocksFromSection(sections[k])],
             examples |-> parseUsageExamples(input, TRUE)])
  /\ UNCHANGED input
  /\ ValidOnly

ReadmeNext == ParseUsageExamples

SpecReadme == ReadmeInit /\ [][ReadmeNext]_vars

\* the lines of a README that are recognized usage headings
usageHeadings(doc) == {h \in 1..Len(doc) : isUsageHeader(doc[h])}

nonEmptyLines(lines) == SelectSeq(lines, LAMBDA l : ~IsEmptyLine(l))

\* the non-empty lines from line h up to, not including, line e
linesBetween(doc, h, e) == nonEmptyLines(SubSeq(doc, h, e - 1))

\* the first line after h that is a heading of level equal to or shallower than that of
\* line h; the line after the last one when there is none
nextHeadingNotDeeper(doc, h) ==
  LET E == {e \in (h + 1)..Len(doc) : doc[e].kind = "heading" /\ doc[e].level <= doc[h].level}
  IN IF E = {} THEN Len(doc) + 1 ELSE CHOOSE e \in E : \A f \in E : e <= f

\* the same, a recognized usage heading of any level counting as well
nextHeadingClosing(doc, h) ==
  LET E == {e \in (h + 1)..Len(doc) :
              /\ doc[e].kind = "heading"
              /\ (doc[e].level <= doc[h].level \/ isUsageHeader(doc[e]))}
  IN IF E = {} THEN Len(doc) + 1 ELSE CHOOSE e \in E : \A f \in E : e <= f

(***************************************************************************)
(* C12 as stated: a section opened by a recognized usage heading of level  *)
(* L contains every non-empty line up to, not including, the first later   *)
(* heading of level <= L; headings deeper than L do not end it.            *)
(***************************************************************************)
C12_SectionBoundaryAsStated ==
  verdict # None =>
    \A h \in usageHeadings(input) :
      \E k \in 1..Len(verdict[1].sections) :
        verdict[1].sections[k] = linesBetween(input, h, nextHeadingNotDeeper(input, h))

(***************************************************************************)
(* C12 amended: every recognized usage heading opens a section, and the    *)
(* sections are, in document order, exactly these; the section opened by   *)
(* a usage heading of level L contains every non-empty line up to, not     *)
(* including, the first later heading that is of level <= L (recognized or *)
(* not) or is itself a recognized usage heading (of any level); other      *)
(* headings deeper than L do not end it.                                   *)
(***************************************************************************)
C12_SectionBoundary ==
  verdict # None =>
    /\ Len(verdict[1].sections) = Cardinality(usageHeadings(input))
    /\ \A h \in usageHeadings(input) :
         verdict[1].sections[Cardinality({g \in usageHeadings(input) : g <= h})]
           = linesBetween(input, h, nextHeadingClosing(input, h))

\* a level 2 usage section kept a level 3 heading and was ended by a level 2 heading that
\* is not a usage heading
C12_Witness ==
  /\ verdict # None
  /\ input = <<Heading(2, "usage"), Heading(3, "notes"), Text("Some prose."), Heading(2, "license")>>
  /\ verdict[1].sections = <<SubSeq(input, 1, 3)>>

RECURSIVE wordsOf(_)
\* the maximal runs of characters of a string that are not whitespace
wordsOf(s) ==
  LET t == trimStartStr(s) IN
  IF Len(t) = 0 THEN <<>>
  ELSE
    LET W == {i \in 1..Len(t) : SubSeq(t, i, i) \in Whitespace}
        e == IF W = {} THEN Len(t) + 1 ELSE CHOOSE i \in W : \A j \in W : i <= j
    IN <<SubSeq(t, 1, e - 1)>> \o wordsOf(SubSeq(t, e, Len(t)))

\* two codes are identical modulo whitespace
sameModuloWhitespace(a, b) == wordsOf(a) = wordsOf(b)

\* the code blocks of all usage sections, in document order
allBlocks == flatten(verdict[1].blocks)

\* the positions of the code blocks that no earlier code block equals modulo whitespace
firstOccurrences ==
  {i \in 1..Len(allBlocks) :
     \A j \in 1..(i - 1) : ~sameModuloWhitespace(allBlocks[j].code, allBlocks[i].code)}

(***************************************************************************)
(* C13 as stated: the output of parseUsageExamples never contains two      *)
(* examples whose code is identical modulo whitespace; code blocks that    *)
(* are identical modulo whitespace, in the same or in different sections,  *)
(* yield exactly one example, the first in document order, and the kept    *)
(* examples appear in document order.                                      *)
(***************************************************************************)
C13_DeduplicatedAsStated ==
  verdict # None =>
    LET examples == verdict[1].examples IN
    /\ \A i, j \in 1..Len(examples) :
         i # j => ~sameModuloWhitespace(examples[i].code, examples[j].code)
    /\ Len(examples) = Cardinality(firstOccurrences)
    /\ \A i \in firstOccurrences :
         examples[Cardinality({g \in firstOccurrences : g <= i})] = allBlocks[i]

(***************************************************************************)
(* C13 amended: the output of parseUsageExamples never contains two        *)
(* examples whose code is identical modulo whitespace; it is, in document  *)
(* order, the first 15 of the code blocks of the usage sections that no    *)
(* earlier code block equals modulo whitespace, so that code blocks that   *)
(* are identical modulo whitespace yield the first of them once when that  *)
(* one is among these 15, and no example otherwise.                        *)
(***************************************************************************)
C13_DeduplicatedInOrder ==
  verdict # None =>
    LET examples == verdict[1].examples
        rank(i) == Cardinality({g \in firstOccurrences : g <= i})
    IN
    /\ \A i, j \in 1..Len(examples) :
         i # j => ~sameModuloWhitespace(examples[i].code, examples[j].code)
    /\ Len(examples) = IF Cardinality(firstOccurrences) < MAX_README_EXAMPLES
                         THEN Cardinality(firstOccurrences) ELSE MAX_README_EXAMPLES
    /\ \A i \in firstOccurrences :
         rank(i) <= MAX_README_EXAMPLES => examples[rank(i)] = allBlocks[i]

\* the same command, written with other whitespace in a second usage section, came out once
C13_Witness ==
  /\ verdict # None
  /\ input = <<Heading(2, "usage"), Fence("sh"), Text("helm install x"), Fence(""),
               Heading(3, "examples"), Fence("bash"), Text("  helm  install\tx "), Fence("")>>
  /\ Len(verdict[1].sections) = 2
  /\ Len(verdict[1].examples) = 1
  /\ verdict[1].examples[1].code = "helm install x"

\* the fence lines of a section
fencesOf(section) == {i \in 1..Len(section) : section[i].kind = "fence"}

\* the m-th fence line of a section
nthFence(section, m) ==
  CHOOSE i \in fencesOf(section) : Cardinality({g \in fencesOf(section) : g <= i}) = m

\* the text between two lines of a section, trimmed
codeBetween(section, i, j) == trimStr(joinLines(lineTexts(SubSeq(section, i + 1, j - 1))))

\* a fence with a language tag opens a block; it has no closing fence of its own when the
\* section ends, or another fence with a language tag comes, before a fence without one
opensUnterminated(section, i) ==
  /\ i \in fencesOf(section)
  /\ section[i].text # ""
  /\ \A j \in fencesOf(section) :
       (j > i /\ section[j].text = "") =>
         \E m \in fencesOf(section) : i < m /\ m < j /\ section[m].text # ""

MaxValuesLines == 5

ValuesLines ==
  {Comment("replicas"), Comment("image"), Comment(""),
   YamlLine("value", "replicaCount: 1"), YamlLine("value", "tag: latest"), Text("")}

ValuesDocs == UNION {[1..n -> ValuesLines] : n \in 0..MaxValuesLines}

ValuesInit ==
  /\ options = [ttl |-> None, maxSize |-> None]
  /\ data = <<>>
  /\ now = 0
  /\ last = NoOp
  /\ lastSet = None
  /\ stored = [k \in CacheKeys |-> None]
  /\ RetryIdle
  /\ input \in ValuesDocs
  /\ verdict = None
  /\ ToolsIdle
  /\ GithubIdle
  /\ LookupIdle

ExtractValuesDocumentation ==
  /\ verdict = None
  /\ verdict' = Some(extractValuesDocumentation(input))
  /\ UNCHANGED input
  /\ ValidOnly

ValuesNext == ExtractValuesDocumentation

SpecValues == ValuesInit /\ [][ValuesNext]_vars

\* lines i..j of a values.yaml are a maximal run of lines of one kind
isRun(doc, i, j, isKind(_)) ==
  /\ 1 <= i /\ i <= j /\ j <= Len(doc)
  /\ \A p \in i..j : isKind(doc[p])
  /\ (i > 1 => ~isKind(doc[i - 1]))
  /\ (j < Len(doc) => ~isKind(doc[j + 1]))

isCommentLine(line) == line.kind = "comment"

isValueLine(line) == line.kind = "value"

RECURSIVE commentText(_)
\* the texts of a run of comment lines, joined by spaces
commentText(lines) ==
  IF lines = <<>> THEN ""
  ELSE LET rest == commentText(Tail(lines)) IN
       IF Head(lines).text = "" THEN rest
       ELSE IF rest = "" THEN Head(lines).text
       ELSE Head(lines).text \o " " \o rest

\* lines i..j are a run of comment lines with some text and lines j+1..k the run of value
\* lines that immediately follows it
documentedValues(doc, i, j, k) ==
  /\ isRun(doc, i, j, isCommentLine)
  /\ isRun(doc, j + 1, k, isValueLine)
  /\ commentText(SubSeq(doc, i, j)) # ""

(***************************************************************************)
(* C14 as stated: each contiguous run of comment lines immediately         *)
(* followed by one or more value lines is exactly one example, whose code  *)
(* is those value lines and whose description is the text of that comment  *)
(* run; and an empty line resets accumulation: the description of an       *)
(* example is always the text of the comment run that immediately precedes *)
(* its value lines.                                                        *)
(***************************************************************************)
C14_CommentRunsAsStated ==
  verdict # None =>
    /\ \A i, j, k \in 1..Len(input) :
         documentedValues(input, i, j, k) =>
           Cardinality({e \in 1..Len(verdict[1]) :
                          /\ verdict[1][e].code = joinLines(lineTexts(SubSeq(input, j + 1, k)))
                          /\ verdict[1][e].description = Some(commentText(SubSeq(input, i, j)))}) = 1
    /\ \A e \in 1..Len(verdict[1]) :
         verdict[1][e].description # None =>
           \E i, j, k \in 1..Len(input) :
             /\ documentedValues(input, i, j, k)
             /\ verdict[1][e].description = Some(commentText(SubSeq(input, i, j)))

(***************************************************************************)
(* The GitHub client (src/services/github-api.ts): getReadmeContent.  A    *)
(* request wrapped in withRetry ends with what its last attempt did, so    *)
(* every outcome of one attempt is an outcome of the wrapped request.      *)
(***************************************************************************)
startsWith(s, prefix) == Len(s) >= Len(prefix) /\ SubSeq(s, 1, Len(prefix)) = prefix

endsWith(s, suffix) ==
  Len(s) >= Len(suffix) /\ SubSeq(s, Len(s) - Len(suffix) + 1, Len(s)) = suffix

\* ^([^\/]+)\/([^\/]+)$
isOwnerRepo(s) ==
  LET S == {i \in 1..Len(s) : SubSeq(s, i, i) = "/"} IN
  Cardinality(S) = 1 /\ 1 \notin S /\ Len(s) \notin S

\* ([^\/]+)\/([^\/]+?)(?:\.git)?(?:\/?$)
isOwnerRepoGit(s) ==
  LET noSlash == IF endsWith(s, "/") THEN SubSeq(s, 1, Len(s) - 1) ELSE s
      noGit == IF endsWith(noSlash, ".git") THEN SubSeq(noSlash, 1, Len(noSlash) - 4) ELSE noSlash
  IN isOwnerRepo(noSlash) \/ isOwnerRepo(noGit)

GITHUB_URL_PREFIXES ==
  {"https://github.com/", "http://github.com/", "git+https://github.com/", "git://github.com/"}

\* parseGitHubUrl: whether it returns an owner and a repo (TRUE) or null (FALSE); a url
\* that is not a string makes url.match throw, which is caught and gives null
parseGitHubUrl(url) ==
  /\ url.type = "string"
  /\ \/ \E p \in GITHUB_URL_PREFIXES :
          startsWith(url.text, p) /\ isOwnerRepoGit(SubSeq(url.text, Len(p) + 1, Len(url.text)))
     \/ isOwnerRepo(url.text)

RepositoryUrls ==
  {[type |-> "string", text |-> t] :
     t \in {"https://github.com/o/r", "http://github.com/o/r.git", "git+https://github.com/o/r/",
            "git://github.com/o/r", "o/r", "https://gitlab.com/o/r", "https://github.com/o",
            "https://github.com/o/r/tree/main", ""}}
  \cup {[type |-> "undefined", text |-> ""]}

README_FILENAMES ==
  <<"README.md", "readme.md", "README.rst", "readme.rst", "README.txt", "readme.txt">>

BRANCHES == <<"main", "master">>

\* getReadmeViaRaw trying every filename on main before it tries master
rawRequestBranchMajor(n) ==
  [filename |-> README_FILENAMES[((n - 1) % Len(README_FILENAMES)) + 1],
   branch |-> BRANCHES[((n - 1) \div Len(README_FILENAMES)) + 1]]

\* the n-th request of getReadmeViaRaw: each filename on main, then on master
rawRequest(n) ==
  [filename |-> README_FILENAMES[(n + 1) \div 2], branch |-> BRANCHES[2 - (n % 2)]]

RAW_REQUESTS == Len(README_FILENAMES) * Len(BRANCHES)

\* what fetch can do for the GitHub client: FetchOutcomes, and an empty file
GithubFetchOutcomes ==
  FetchOutcomes \cup {[kind |-> "response", status |-> 200, body |-> ""]}

\* what an attempt throws when fetch did not give an ok response
attemptError(f) ==
  IF f.kind = "response" THEN handleApiError(handleHttpError(f.status))
  ELSE IF f.body = "AbortError" THEN handleApiError(PlainError("Request timeout"))
  ELSE handleApiError(PlainError("fetch failed"))

\* the function fetchRawContent hands to withRetry, for one outcome of fetch
rawAttempt(f) ==
  IF f.kind = "response" /\ f.status \in 200..299 THEN Resolve(Some(f.body))
  ELSE IF f.kind = "response" /\ f.status = 404 THEN Resolve(None)
  ELSE Reject(attemptError(f))

\* the function getReadmeViaApi hands to withRetry, for one outcome of fetch; after a
\* 404 it is alt, the first alternative filename that the API has, that decides
apiReadmeAttempt(f, alt) ==
  IF f.kind = "response" /\ f.status \in 200..299 THEN Resolve(Some(f.body))
  ELSE IF f.kind = "response" /\ f.status = 404 THEN Resolve(alt)
  ELSE Reject(attemptError(f))

RawOutcomes == {rawAttempt(f) : f \in GithubFetchOutcomes}

ApiReadmeOutcomes ==
  {apiReadmeAttempt(f, alt) : f \in GithubFetchOutcomes, alt \in {None, Some("body2")}}

\* if (content): the request resolved to a non-empty string
hasContent(o) == o.kind = "return" /\ o.value[1] # None /\ o.value[1][1] # ""

failed(o) == IF o.kind = "throw" THEN 1 ELSE 0

finished(g, o) == [g EXCEPT !.pc = "done", !.result = Some(o)]

\* a request of getReadmeContent that has settled: the contents API (of the
\* repository's default branch) or a raw file, and the content it gave
requested(via, file, o) ==
  [via |-> via, filename |-> file.filename, branch |-> file.branch,
   got |-> hasContent(o), body |-> IF hasContent(o) THEN o.value[1][1] ELSE ""]

\* getReadmeContent after getReadmeViaApi has settled: a rejection is caught
apiStep(g, o) ==
  IF hasContent(o) THEN finished(g, Resolve(o.value[1]))
  ELSE [g EXCEPT !.pc = "raw", !.request = 1, !.failures = failed(o)]

\* getReadmeViaRaw with no try around fetchRawContent
rawStepNoCatch(g, o) ==
  IF hasContent(o) THEN finished(g, Resolve(o.value[1]))
  ELSE IF o.kind = "throw" THEN finished(g, o)
  ELSE IF g.request = RAW_REQUESTS THEN finished(g, Resolve(None))
  ELSE [g EXCEPT !.request = g.request + 1]

\* getReadmeViaRaw after a fetchRawContent has settled: a rejection is caught and the
\* next branch or filename is tried; after the last one the result is null
rawStep(g, o) ==
  IF hasContent(o) THEN finished([g EXCEPT !.failures = g.failures + failed(o)], Resolve(o.value[1]))
  ELSE IF g.request = RAW_REQUESTS
    THEN finished([g EXCEPT !.failures = g.failures + failed(o)], Resolve(None))
  ELSE [g EXCEPT !.request = g.request + 1, !.failures = g.failures + failed(o)]

GithubOnly == UNCHANGED <<cacheState, cacheGhost, retryVars, validVars, toolVars, lookupVars>>

GithubInit ==
  /\ options = [ttl |-> None, maxSize |-> None]
  /\ data = <<>>
  /\ now = 0
  /\ last = NoOp
  /\ lastSet = None
  /\ stored = [k \in CacheKeys |-> None]
  /\ RetryIdle
  /\ ValidIdle
  /\ ToolsIdle
  /\ GithubIdle
  /\ LookupIdle

\* getReadmeContent(repositoryInfo) up to its first await
GetReadmeContent ==
  /\ github.pc = "idle"
  /\ \E u \in RepositoryUrls :
       github' = IF parseGitHubUrl(u)
                   THEN [github EXCEPT !.pc = "api", !.url = u.text]
                   ELSE finished([github EXCEPT !.url = u.text], Resolve(None))
  /\ GithubOnly

\* getReadmeViaApi settles
ApiReadmeSettles ==
  /\ github.pc = "api"
  /\ \E o \in ApiReadmeOutcomes :
       github' = apiStep([github EXCEPT !.log = Append(@, requested("api",
                            [filename |-> README_FILENAMES[1], branch |-> ""], o))], o)
  /\ GithubOnly

\* a fetchRawContent of getReadmeViaRaw settles
RawContentSettles ==
  /\ github.pc = "raw"
  /\ \E o \in RawOutcomes :
       github' = rawStep([github EXCEPT !.log = Append(@, requested("raw",
                            rawRequest(github.request), o))], o)
  /\ GithubOnly

GithubNext == GetReadmeContent \/ ApiReadmeSettles \/ RawContentSettles

SpecGithub == GithubInit /\ [][GithubNext]_vars

C17_SwallowsFailuresAsStated ==
  (retryArgs.fn \in {"values", "changelog"} /\ settled # None) =>
    /\ settled[1].kind = "return"
    /\ settled[1].value \in Payloads \cup {NullBody}


(***************************************************************************)
(* Invalid input: the tool operations validate before they touch the cache *)
(* or the clients.                                                         *)
(***************************************************************************)
\* the validations an invocation with the arguments a applies: the package
\* name always, the version when it is given and is not 'latest', the query
\* and the limit
validationsOf(op, a) ==
  CASE op = "readme" ->
         {validatePackageName(a.package_name)}
         \cup (IF a.version.type = "string" /\ a.version.chars \notin {<<>>, Latest}
                 THEN {validateVersion(a.version)} ELSE {})
    [] op = "info" -> {validatePackageName(a.package_name)}
    [] op = "search" -> {validateSearchQuery(a.query), validateLimit(a.limit)}
    [] OTHER -> {}

failedValidations(c) == {v \in validationsOf(c.op, c.args) : v.kind = "throw"}

\* the cache key the invocation would have looked up
keyOfCall(c) ==
  CASE c.op = "readme" -> generatePackageReadmeKey(c.package_name, c.version)
    [] c.op = "info" -> generatePackageInfoKey(c.package_name, <<>>)
    [] c.op = "search" -> generateSearchKey(c.query, c.limit)
    [] OTHER -> <<>>

\* C18: when an argument of getPackageReadme, getPackageInfo or
\* searchPackages fails its validation, the invocation ends in the step that
\* starts it, rejected with the error of a failed validation; that step
\* neither reads nor changes the cache (an expired entry under the call's key
\* stays where it is), no key is looked up and no client call is made.
C18_InvalidInputFailsFirst ==
  [][(ncalls' = ncalls + 1 /\ failedValidations(call') # {}) =>
       /\ call'.pc = "done"
       /\ call'.result.kind = "throw"
       /\ call'.result.error[1] \in {thrownBy(v) : v \in failedValidations(call')}
       /\ call'.ext = 0
       /\ call'.key = <<>>
       /\ ~call'.hit
       /\ data' = data
       /\ stored' = stored]_vars

\* an invocation was rejected by validation while the cache holds an entry
\* under the key it would have used
C18_Witness ==
  /\ Finished
  /\ failedValidations(call) # {}
  /\ call.result.kind = "throw"
  /\ \E i \in 1..Len(data) : data[i].key = keyOfCall(call)


(***************************************************************************)
(* Size-based eviction.  The cache starts with a map that earlier sets     *)
(* have filled up to its size bound, so that set removes more than one     *)
(* entry; the sweep, which removes expired entries only, is left out.      *)
(***************************************************************************)
MaxPreload == 21

PreloadKeys ==
  <<"e01", "e02", "e03", "e04", "e05", "e06", "e07", "e08", "e09", "e10", "e11",
    "e12", "e13", "e14", "e15", "e16", "e17", "e18", "e19", "e20", "e21", "e22">>

\* n entries set at the times 0 and 1; every third key was set again at
\* time 1, which keeps its place in the map
Preloaded(n) ==
  [i \in 1..n |-> [key |-> PreloadKeys[i], data |-> "v1",
                   timestamp |-> IF i % 3 = 1 THEN 1 ELSE 0, ttl |-> DEFAULT_TTL]]

\* the largest map a cache of the given maxSize holds without evicting
Capacity(opts) == maxSize(opts) \div ENTRY_SIZE_ESTIMATE

EvictOptions ==
  {[ttl |-> None, maxSize |-> Some(n * ENTRY_SIZE_ESTIMATE)] : n \in {10, MaxPreload - 1}}

EvictInit ==
  /\ options \in EvictOptions
  /\ data = Preloaded(Capacity(options) + 1)
  /\ now = 1
  /\ last = NoOp
  /\ lastSet = None
  /\ stored = [k \in CacheKeys |-> None]
  /\ RetryIdle
  /\ ValidIdle
  /\ ToolsIdle
  /\ GithubIdle
  /\ LookupIdle

EvictNext == DoSet \/ DoGet \/ DoHas \/ DoDelete \/ DoClear \/ Tick

SpecEvict == EvictInit /\ [][EvictNext]_vars

\* the step is a Cache.set: no other action of EvictNext leaves lastSet set
\* without moving the clock
IsSetStep == lastSet' # None /\ now' = now

\* the entries of d whose key is not in K, in the map's order
without(d, K) == SelectSeq(d, LAMBDA e : e.key \notin K)

\* the key set E is what set(key, ...) evicted on the way from d to after:
\* the entries of E are gone (the one of key is stored anew, at the end of
\* the map), no entry of E is younger than an entry that stayed, and the
\* other entries are as they were
evictedBy(E, d, after, key) ==
  /\ E \subseteq MapKeys(d)
  /\ MapKeys(after) = (MapKeys(d) \ E) \cup {key}
  /\ \A i \in 1..Len(d), j \in 1..Len(d) :
       (d[i].key \in E /\ d[j].key \notin E) => d[i].timestamp <= d[j].timestamp
  /\ without(after, {key}) = without(d, E \cup {key})
  /\ (key \in E \/ key \notin MapKeys(d)) => after[Len(after)].key = key
  /\ (key \in MapKeys(d) \ E) => MapIndex(after, key) = MapIndex(without(d, E), key)

\* the number of entries a set evicts from a map of n entries
evictionCount(n, opts) ==
  IF n * ENTRY_SIZE_ESTIMATE > maxSize(opts) THEN CeilTenth(n) ELSE 0

\* C19: a set whose map holds n entries before the new entry is stored
\* removes exactly ceil(n / 10) entries when n * 10000 exceeds maxSize, none
\* of them younger than an entry it keeps, and removes no entry otherwise;
\* the entries it keeps are unchanged.
C19_SizeEviction ==
  [][IsSetStep =>
       LET key == lastSet'[1]
           gone == MapKeys(data) \ MapKeys(data')
       IN \E E \in {gone, gone \cup ({key} \cap MapKeys(data))} :
            /\ Cardinality(E) = evictionCount(Len(data), options)
            /\ evictedBy(E, data, data', key)]_vars

\* a set has just evicted the two oldest of eleven entries, e02 and e03, and
\* kept e01, which stands before them in the map but was set later
C19_Witness ==
  /\ last.op = "set"
  /\ lastSet # None
  /\ Capacity(options) = 10
  /\ MapKeys(data) \cap {PreloadKeys[i] : i \in 1..5} = {"e01", "e04", "e05"}


(***************************************************************************)
(* The periodic sweep, in a cache whose size bound is out of reach: there  *)
(* a set never removes an entry, so the steps that change the map and      *)
(* leave the record of the public operations and the clock alone are the   *)
(* runs of cleanup.                                                        *)
(***************************************************************************)
SweepInit ==
  /\ options \in {[ttl |-> Some(2), maxSize |-> None], [ttl |-> None, maxSize |-> None]}
  /\ data = <<>>
  /\ now = 0
  /\ last = NoOp
  /\ lastSet = None
  /\ stored = [k \in CacheKeys |-> None]
  /\ RetryIdle
  /\ ValidIdle
  /\ ToolsIdle
  /\ GithubIdle
  /\ LookupIdle

SpecSweep == SweepInit /\ [][CacheNext]_vars

\* the record of the latest public operation is the same in both states
\* (ret is a value for get and a boolean for has and delete)
sameOperation(a, b) ==
  /\ a.op = b.op
  /\ a.key = b.key
  /\ a.at = b.at
  /\ a.found = b.found
  /\ a.after = b.after
  /\ a.ret = b.ret

IsSweepStep == sameOperation(last, last') /\ UNCHANGED <<lastSet, stored, now>>

\* the keys of the entries of d that have not expired at time t
unexpiredKeys(d, t) == {d[i].key : i \in {j \in 1..Len(d) : ~(t > d[j].timestamp + d[j].ttl)}}

\* C20: a run of cleanup removes exactly the entries with
\* now > timestamp + ttl; every other entry stays, with its key, value,
\* timestamp and ttl and in its place in the map's order, and no entry is
\* added, whatever public operations ran before.
C20_SweepOnlyDeletesExpired ==
  [][IsSweepStep =>
       LET kept == MapKeys(data') IN
       /\ kept = unexpiredKeys(data, now)
       /\ data' = without(data, MapKeys(data) \ kept)
       /\ options' = options]_vars

\* the entry of the latest set is gone although no public operation followed
\* that set, and an entry that has not expired is still in the map: the
\* sweep removed the one and kept the other
C20_Witness ==
  /\ last.op = "set"
  /\ lastSet = Some(last.key)
  /\ last.key \notin MapKeys(data)
  /\ \E i \in 1..Len(data) : ~(now > data[i].timestamp + data[i].ttl)


(***************************************************************************)
(* validateVersion applied to one argument, drawn like normalizeVersion's. *)
(***************************************************************************)
ValidateVersion ==
  /\ verdict = None
  /\ verdict' = Some(validateVersion(input))
  /\ UNCHANGED input
  /\ ValidOnly

CheckVersionNext == ValidateVersion

SpecCheckVersion == VersionInit /\ [][CheckVersionNext]_vars

(***************************************************************************)
(* C21 as stated: validateVersion(undefined) returns without throwing,     *)
(* while a value that is neither undefined nor a string, such as a number  *)
(* or an object, is rejected with ValidationError.                         *)
(***************************************************************************)
C21_AcceptsUndefinedAsStated ==
  verdict # None =>
    /\ input.type = "undefined" => verdict[1] = Accepted
    /\ input.type \in {"number", "object"} =>
         (verdict[1].kind = "throw" /\ verdict[1].error = "ValidationError")


(***************************************************************************)
(* ArtifactHubClient.getPackageInfo(packageName, version): a withRetry     *)
(* around the request of the package endpoint and, for a version that is   *)
(* not the package's current one, getSpecificVersionInfo, whose request of *)
(* the version endpoint makeApiRequest wraps in a withRetry of its own.    *)
(***************************************************************************)
LookupOnly == UNCHANGED <<cacheState, cacheGhost, retryVars, validVars, toolVars, githubVars>>

LookupInit ==
  /\ options = [ttl |-> None, maxSize |-> None]
  /\ data = <<>>
  /\ now = 0
  /\ last = NoOp
  /\ lastSet = None
  /\ stored = [k \in CacheKeys |-> None]
  /\ RetryIdle
  /\ ValidIdle
  /\ ToolsIdle
  /\ GithubIdle
  /\ LookupIdle

\* the version argument: omitted, 'latest', or a specific version
LookupVersions == {"", "latest", "1.0.0"}

\* the package body's relation to the version asked for: data.version is
\* that version, or available_versions lists it, or neither
PackageVersionCases == {"current", "listed", "absent"}

\* getPackageInfo up to the first fetch
ClientGetPackageInfo ==
  /\ lookup.pc = "idle"
  /\ \E v \in LookupVersions :
       lookup' = [NoLookup EXCEPT !.pc = "package", !.version = v, !.outer = 1]
  /\ LookupOnly

\* the outer withRetry when its fn threw e
outerThrows(l, e) ==
  IF isNotRetried(e) \/ l.outer = MAX_RETRIES_API
    THEN [l EXCEPT !.pc = "done", !.result = Reject(e)]
    ELSE [l EXCEPT !.pc = "outerSleep"]

\* the fetch of the package endpoint settles
PackageFetchSettles ==
  /\ lookup.pc = "package"
  /\ \E f \in FetchOutcomes, found \in PackageVersionCases :
       LET l == [lookup EXCEPT !.packageRequests = @ + 1]
           r == apiAttempt(f)
       IN lookup' =
            IF r.kind = "throw" THEN outerThrows(l, r.error[1])
            ELSE IF l.version \notin {"", "latest"} /\ found # "current"
              THEN IF found = "absent"
                     THEN outerThrows(l, handleApiError(VersionNotFoundError))
                     ELSE [l EXCEPT !.pc = "version", !.inner = 1]
            ELSE [l EXCEPT !.pc = "done", !.result = Resolve(r.value)]
  /\ LookupOnly

\* the fetch of the version endpoint settles, inside makeApiRequest's withRetry
VersionFetchSettles ==
  /\ lookup.pc = "version"
  /\ \E f \in FetchOutcomes :
       LET l == [lookup EXCEPT !.versionRequests = @ + 1]
           r == apiAttempt(f)
       IN lookup' =
            IF r.kind = "return" THEN [l EXCEPT !.pc = "done", !.result = Resolve(r.value)]
            ELSE IF isNotRetried(r.error[1]) \/ l.inner = MAX_RETRIES_API
              THEN outerThrows(l, handleApiError(r.error[1]))
            ELSE [l EXCEPT !.pc = "innerSleep"]
  /\ LookupOnly

\* the timer of the inner withRetry fires
InnerWakeUp ==
  /\ lookup.pc = "innerSleep"
  /\ lookup' = [lookup EXCEPT !.pc = "version", !.inner = @ + 1]
  /\ LookupOnly

\* the timer of the outer withRetry fires: fn is called again from its start
OuterWakeUp ==
  /\ lookup.pc = "outerSleep"
  /\ lookup' = [lookup EXCEPT !.pc = "package", !.outer = @ + 1, !.inner = 0]
  /\ LookupOnly

LookupNext ==
  \/ ClientGetPackageInfo
  \/ PackageFetchSettles
  \/ VersionFetchSettles
  \/ InnerWakeUp
  \/ OuterWakeUp

SpecLookup == LookupInit /\ [][LookupNext]_vars

(***************************************************************************)
(* C22 as stated: one call of getPackageInfo sends at most 3 requests to   *)
(* the package endpoint and at most 3 to the version endpoint.             *)
(***************************************************************************)
C22_ThreeRequestsAsStated ==
  /\ lookup.packageRequests <= MAX_RETRIES_API
  /\ lookup.versionRequests <= MAX_RETRIES_API


(***************************************************************************)
(* The order in which getReadmeContent makes its requests.                 *)
(***************************************************************************)
\* the requests in the order the fallback is to make them: the contents API,
\* then each filename on main and on master
FallbackOrder ==
  <<<<"api", "README.md", "">>,
    <<"raw", "README.md", "main">>, <<"raw", "README.md", "master">>,
    <<"raw", "readme.md", "main">>, <<"raw", "readme.md", "master">>,
    <<"raw", "README.rst", "main">>, <<"raw", "README.rst", "master">>,
    <<"raw", "readme.rst", "main">>, <<"raw", "readme.rst", "master">>,
    <<"raw", "README.txt", "main">>, <<"raw", "README.txt", "master">>,
    <<"raw", "readme.txt", "main">>, <<"raw", "readme.txt", "master">>>>

\* C23: for a repository URL that parses, the requests made so far are an
\* initial part of the fallback order (the contents API first, then
\* README.md, readme.md, README.rst, readme.rst, README.txt, readme.txt,
\* each on main and then on master); a request is made only when no
\* earlier one gave non-empty content; the call returns the content of the
\* first request that gave some, and returns null only after the API and
\* all 12 raw requests have been made.
C23_FallbackOrder ==
  LET log == github.log
      n == Len(log)
  IN /\ n <= Len(FallbackOrder)
     /\ \A i \in 1..n : <<log[i].via, log[i].filename, log[i].branch>> = FallbackOrder[i]
     /\ \A i \in 1..(n - 1) : ~log[i].got
     /\ (github.pc # "done") => (\A i \in 1..n : ~log[i].got)
     /\ (github.pc = "done" /\ n > 0) =>
          IF log[n].got
            THEN github.result = Some(Resolve(Some(log[n].body)))
            ELSE n = Len(FallbackOrder) /\ github.result = Some(Resolve(None))

\* the API failed or was empty, README.md was missing on main and master,
\* readme.md was missing on main, and readme.md on master gave the content
\* that was returned
C23_Witness ==
  /\ github.pc = "done"
  /\ Len(github.log) = 5
  /\ github.log[5].got
  /\ github.result = Some(Resolve(Some(github.log[5].body)))


(***************************************************************************)
(* The retry schedule.  Every `await fn()` settles (each fetch is aborted  *)
(* by its timeout) and every timer fires, so a withRetry call that can     *)
(* take a step eventually takes one.                                       *)
(***************************************************************************)
SpecRetryLive == RetryInit /\ [][RetryNext]_vars /\ WF_vars(RetryNext)

RetrySettled == retryPc \in {"returned", "thrown"}

\* at every moment of a withRetry(fn, N, base) call: fn has been invoked at
\* most N times; one wait was inserted after each failed attempt that was
\* followed or is to be followed by another, and none after the attempt that
\* ended the call; the wait after attempt k is at least base * 2^(k-1) and
\* less than 1.1 times that, and greater than the wait before it; the error
\* thrown is the error of the last attempt
RetryScheduleKept ==
  LET N == retryArgs.maxRetries
      base == retryArgs.baseDelay
  IN /\ Len(fnLog) <= N
     /\ Len(waits) <= N - 1
     /\ Len(waits) = IF retryPc \in {"returned", "thrown", "sleeping"} /\ Len(fnLog) > 0
                       THEN Len(fnLog) - (IF retryPc = "sleeping" THEN 0 ELSE 1)
                       ELSE Len(fnLog)
     /\ \A k \in 1..Len(waits) :
          /\ fnLog[k].kind = "throw"
          /\ ~(fnLog[k].error[1].class \in {"PackageNotFoundError", "VersionNotFoundError"}
                 \/ fnLog[k].error[1].statusCode = Some(404))
          /\ waits[k] >= base * 2 ^ (k - 1)
          /\ 10 * waits[k] < 11 * base * 2 ^ (k - 1)
          /\ k > 1 => waits[k] > waits[k - 1]
     /\ retryPc = "thrown" =>
          /\ fnLog[Len(fnLog)].kind = "throw"
          /\ settled = Some(Throw(fnLog[Len(fnLog)].error[1]))

\* C24: the schedule of withRetry(fn, N, base) is kept throughout (at most N
\* invocations of fn, a wait between base * 2^(k-1) and 1.1 * base * 2^(k-1)
\* after failed attempt k < N, strictly increasing waits, no wait after the
\* N-th failure or a 404-class error, the last attempt's error thrown), and
\* the call terminates.
C24_RetrySchedule == []RetryScheduleKept /\ <>RetrySettled

\* three attempts failed: two waits, the second longer than the first, and
\* the error of the third attempt was thrown without a third wait
C24_Witness ==
  /\ retryArgs.maxRetries = MAX_RETRIES_API
  /\ retryPc = "thrown"
  /\ Len(fnLog) = MAX_RETRIES_API
  /\ Len(waits) = 2
  /\ waits[2] > waits[1]


(***************************************************************************)
(* The number of entries.  The cache is empty, or earlier sets have filled *)
(* it to one entry above the largest map it holds without evicting; every  *)
(* operation and the sweep run from there.                                 *)
(***************************************************************************)
MaxFill == 3

FillInit ==
  /\ options = [ttl |-> None, maxSize |-> Some(MaxFill * ENTRY_SIZE_ESTIMATE + 1)]
  /\ data \in {<<>>, Preloaded(Capacity(options) + 1)}
  /\ now = 1
  /\ last = NoOp
  /\ lastSet = None
  /\ stored = [k \in CacheKeys |-> None]
  /\ RetryIdle
  /\ ValidIdle
  /\ ToolsIdle
  /\ GithubIdle
  /\ LookupIdle

SpecFill == FillInit /\ [][CacheNext]_vars

\* C26: whatever operations have run, the map holds at most
\* floor(maxSize / 10000) + 1 entries.
C26_EntryCountBounded ==
  Len(data) <= (maxSize(options) \div 10000) + 1

\* a set of a new key into a map at its bound evicted the oldest entry, and
\* the map is at its bound again
C26_Witness ==
  /\ last.op = "set"
  /\ ~last.found
  /\ lastSet # None
  /\ Len(data) = (maxSize(options) \div 10000) + 1
  /\ "e02" \notin MapKeys(data)
  /\ "e03" \in MapKeys(data)


(***************************************************************************)
(* What an invocation that did not succeed leaves in the cache.            *)
(***************************************************************************)
\* the invocation ended in the not-found response, in the empty response for
\* a malformed search body, or in an error
EndedWithoutSuccess(c) ==
  /\ c.pc = "done"
  /\ \/ c.op \in {"readme", "info"} /\ c.infoError # None
     \/ c.op = "search" /\ c.malformed
     \/ c.result.kind = "throw"

(***************************************************************************)
(* C27 as stated: the step in which an invocation ends in the not-found    *)
(* response (getPackageInfo, getPackageReadme), in the empty response for  *)
(* a malformed upstream result (searchPackages) or in an error leaves the  *)
(* cache unchanged.                                                        *)
(***************************************************************************)
C27_OnlySuccessesCachedAsStated ==
  [][(call.pc # "done" /\ EndedWithoutSuccess(call')) =>
       (data' = data /\ stored' = stored)]_vars

\* the same without the malformed search result: not-found responses and
\* errors are not cached
NotFoundAndErrorsNotCached ==
  [][(call.pc # "done" /\ EndedWithoutSuccess(call') /\ ~call'.malformed) =>
       (data' = data /\ stored' = stored)]_vars


(***************************************************************************)
(* searchPackages with queries longer than the twelve characters that      *)
(* generateSearchKey keeps of a query.                                     *)
(***************************************************************************)
LongQueryArgs ==
  {Str(<<"k", "u", "b", "e", "-", "s", "t", "a", "t", "e", "-", "m", "e", "t", "r", "i", "c", "s">>),
   Str(<<"k", "u", "b", "e", "-", "s", "t", "a", "t", "e", "-", "m", "o", "n", "i", "t", "o", "r">>),
   Str(<<"k", "u", "b", "e", "-", "p", "r", "o", "m", "e", "t", "h", "e", "u", "s">>)}

SearchLimitArgs == {NoLimit, Num(5)}

SearchKeys ==
  {generateSearchKey(sanitizeSearchQuery(q), defaulted(l, Num(DEFAULT_LIMIT)).value) :
     q \in LongQueryArgs, l \in SearchLimitArgs}

SearchInit ==
  /\ options = [ttl |-> None, maxSize |-> None]
  /\ data = <<>>
  /\ now = 0
  /\ last = NoOp
  /\ lastSet = None
  /\ stored = [k \in SearchKeys |-> None]
  /\ RetryIdle
  /\ ValidIdle
  /\ ToolsIdle
  /\ GithubIdle
  /\ LookupIdle

CallSearchLong == callSearch(LongQueryArgs, SearchLimitArgs)

SearchNext == CallSearchLong \/ SearchSettles \/ ToolTick \/ ToolSweep

SpecSearch == SearchInit /\ [][SearchNext]_vars

(***************************************************************************)
(* C28 as stated: the query field of the response searchPackages returns   *)
(* equals the sanitized query of that call.                                *)
(***************************************************************************)
C28_ResponseOfOwnSearchAsStated ==
  (Finished /\ call.op = "search" /\ call.result.kind = "return") =>
    returned.query = call.query


(***************************************************************************)
(* getPackageReadme and getPackageInfo with package names that carry       *)
(* surrounding whitespace.                                                 *)
(***************************************************************************)
PaddedNameArgs ==
  {Str(<<" ", "a", "/", "b", " ">>), Str(<<"a", "/", "b">>), Str(<<"a", " ", "/", "b">>)}

NamedVersionArgs == {Undefined, Str(<<"v", "1">>)}

NameKeys ==
  {generatePackageInfoKey(n.chars, <<>>) : n \in PaddedNameArgs}
  \cup {generatePackageReadmeKey(n.chars, normalizeVersion(defaulted(v, Str(Latest)))) :
          n \in PaddedNameArgs, v \in NamedVersionArgs}

NamesInit ==
  /\ options = [ttl |-> None, maxSize |-> None]
  /\ data = <<>>
  /\ now = 0
  /\ last = NoOp
  /\ lastSet = None
  /\ stored = [k \in NameKeys |-> None]
  /\ RetryIdle
  /\ ValidIdle
  /\ ToolsIdle
  /\ GithubIdle
  /\ LookupIdle

CallReadmePadded == callReadme(PaddedNameArgs, NamedVersionArgs)

CallInfoPadded == callInfo(PaddedNameArgs)

NamesNext ==
  \/ CallReadmePadded
  \/ CallInfoPadded
  \/ InfoSettles
  \/ GithubSettles
  \/ ValuesSettles
  \/ ToolTick
  \/ ToolSweep

SpecNames == NamesInit /\ [][NamesNext]_vars

\* the name validatePackageName has checked: its trimmed local copy
validatedName(c) == trim(c.args.package_name.chars)

\* the invocation has passed its validations and computed its cache key
PastValidation == call.op \in {"readme", "info"} /\ call.key # <<>>

(***************************************************************************)
(* C29 as stated: for every package_name that validatePackageName accepts, *)
(* the name getPackageReadme and getPackageInfo hand to the registry       *)
(* client, put in the cache key and put in the install command is the      *)
(* validated trimmed name, whose repository and chart segments consist of  *)
(* the characters [A-Za-z0-9_.-] only.                                     *)
(***************************************************************************)
C29_ValidatedSegmentsUsedAsStated ==
  PastValidation =>
    /\ call.package_name = validatedName(call)
    /\ \A n \in 1..2 : ~hasInvalidChars(segment(call.package_name, n))
    /\ call.key = keyOfCall([call EXCEPT !.package_name = validatedName(call)])
    /\ (Finished /\ call.op = "readme" /\ call.result.kind = "return"
          /\ returned.installation.command # <<>>) =>
         returned.installation.command =
           <<"helm install my-", segment(validatedName(call), 2), " ", validatedName(call)>>


(***************************************************************************)
(* parseUsageExamples applied to a README whose code blocks hold shell     *)
(* comments.  Inside a fence the line "# install the chart" is the same    *)
(* string as a level-1 heading, which is how its record is written.        *)
(***************************************************************************)
MaxFencedBlocks == 3

FencedBlocks ==
  {<<Heading(2, "usage")>>, <<Heading(1, "installation")>>, <<Heading(3, "notes")>>,
   <<Text("Some prose.")>>,
   <<Fence("sh"), Text("helm install x"), Fence("")>>,
   <<Fence("sh"), Heading(1, "install the chart"), Text("helm install y"), Fence("")>>}

FencedDocs ==
  {flatten(bs) : bs \in UNION {[1..n -> FencedBlocks] : n \in 0..MaxFencedBlocks}}

FencedInit ==
  /\ options = [ttl |-> None, maxSize |-> None]
  /\ data = <<>>
  /\ now = 0
  /\ last = NoOp
  /\ lastSet = None
  /\ stored = [k \in CacheKeys |-> None]
  /\ RetryIdle
  /\ input \in FencedDocs
  /\ verdict = None
  /\ ToolsIdle
  /\ GithubIdle
  /\ LookupIdle

SpecFenced == FencedInit /\ [][ReadmeNext]_vars

\* line m of the README is outside every fenced block
outsideFence(doc, m) == Cardinality({k \in 1..(m - 1) : doc[k].kind = "fence"}) % 2 = 0

\* the line that closes the fenced block opened at line i, or 0
closingFence(doc, i) ==
  LET J == {j \in (i + 1)..Len(doc) : doc[j].kind = "fence"} IN
  IF J = {} THEN 0 ELSE CHOOSE j \in J : \A m \in J : j <= m

\* the body of the fenced block between lines i and j
blockBody(doc, i, j) == trimStr(joinLines(lineTexts(SubSeq(doc, i + 1, j - 1))))

\* line i lies in the section of a usage heading: the headings between the two
\* lines, those inside fenced blocks apart, are deeper than the usage heading
inUsageSectionAt(doc, i) ==
  \E h \in 1..(i - 1) :
    /\ isUsageHeader(doc[h])
    /\ outsideFence(doc, h)
    /\ \A m \in (h + 1)..(i - 1) :
         (doc[m].kind = "heading" /\ outsideFence(doc, m)) => doc[m].level > doc[h].level

\* the terminated fenced blocks with a body that lie in a usage section
usageBlocks(doc) ==
  {i \in 1..Len(doc) :
     /\ doc[i].kind = "fence"
     /\ outsideFence(doc, i)
     /\ closingFence(doc, i) # 0
     /\ blockBody(doc, i, closingFence(doc, i)) # ""
     /\ inUsageSectionAt(doc, i)}

(***************************************************************************)
(* C30 as stated: every properly terminated fenced block with a non-empty  *)
(* body inside a recognized usage section is emitted by parseUsageExamples *)
(* as an example whose code is the block's body, also when the body holds  *)
(* lines that begin with "# ".                                             *)
(***************************************************************************)
C30_FencedBlocksEmittedAsStated ==
  verdict # None =>
    \A i \in usageBlocks(input) :
      \E e \in 1..Len(verdict[1].examples) :
        verdict[1].examples[e].code = blockBody(input, i, closingFence(input, i))


(***************************************************************************)
(* Two invocations of getPackageInfo at once.  The event loop runs one     *)
(* invocation at a time and switches between them at their awaits: call    *)
(* is the invocation whose continuation runs next, other the one that is   *)
(* suspended meanwhile (or has not started, or has finished).  The cache   *)
(* may already hold the response of an earlier lookup of another package.  *)
(***************************************************************************)
OverlapNames == {Str(<<"a", "/", "b">>)}

EarlierName == <<"c", "/", "d">>

EarlierKey == generatePackageInfoKey(EarlierName, <<>>)

\* the entry an earlier getPackageInfo('c/d') has stored
EarlierEntry ==
  [key |-> EarlierKey, data |-> infoResponse(EarlierName, PkgFull, FALSE, None),
   timestamp |-> 0, ttl |-> DEFAULT_TTL]

OverlapInit ==
  /\ options \in ToolCacheOptions
  /\ data \in {<<>>, <<EarlierEntry>>}
  /\ now = 0
  /\ last = NoOp
  /\ lastSet = None
  /\ stored = [k \in {generatePackageInfoKey(n.chars, <<>>) : n \in OverlapNames} |-> None]
  /\ RetryIdle
  /\ ValidIdle
  /\ ToolsIdle
  /\ GithubIdle
  /\ LookupIdle

CallInfoOverlap == callInfo(OverlapNames)

\* the event loop turns to the other invocation
Switch ==
  /\ call' = other
  /\ other' = call
  /\ UNCHANGED <<options, data, now, last, lastSet, stored, ncalls, ticks>>
  /\ UNCHANGED <<retryVars, validVars, githubVars, lookupVars>>

OverlapNext ==
  \/ CallInfoOverlap
  \/ InfoSettles
  \/ ValuesSettles
  \/ ToolTick
  \/ ToolSweep
  \/ Switch

SpecOverlap == OverlapInit /\ [][OverlapNext]_vars

\* a step of one of the invocations: it starts, or one of its awaits settles
InvocationStep == other' = other /\ (ncalls' # ncalls \/ call'.ext # call.ext)

\* the step ends the invocation with a response it has put in the cache
StoresResponse ==
  /\ InvocationStep
  /\ call'.pc = "done"
  /\ ~call'.hit
  /\ call'.result.kind = "return"
  /\ call'.result.value[1].exists

\* the response of a finished invocation that missed the cache is built from the
\* upstream result the invocation itself received
OwnResult(c) ==
  (c.op = "info" /\ c.pc = "done" /\ ~c.hit /\ c.result.kind = "return") =>
    IF c.infoError # None
      THEN c.result.value[1] = infoNotFound(c.package_name)
      ELSE c.result.value[1] =
             infoResponse(c.package_name, c.pkg[1], c.flag, c.result.value[1].dependencies)

\* a cache.set wins: the entry of the key is the response just stored
LastWriteWins ==
  StoresResponse =>
    /\ MapGet(data', call'.key) # None
    /\ MapGet(data', call'.key)[1].data = call'.result.value[1]
    /\ stored'[call'.key] # None
    /\ stored'[call'.key][1].value = call'.result.value[1]

\* what the cache holds under a key is what the latest set of that key stored
HoldsLatest ==
  \A i \in 1..Len(data) :
    (data[i].key \in DOMAIN stored /\ stored[data[i].key] # None) =>
      data[i].data = stored[data[i].key][1].value

\* the step leaves every cache key but the invocation's own as it was
OtherKeysKept ==
  \A k \in (MapKeys(data) \cup MapKeys(data')) \ {call'.key} : MapGet(data', k) = MapGet(data, k)

\* the map is within its size bound, so that set evicts nothing
WithinSizeBound == Len(data) * ENTRY_SIZE_ESTIMATE <= maxSize(options)

(***************************************************************************)
(* C25 as stated: two overlapping invocations of a lookup for the same     *)
(* uncached key interact only by last-write-wins on that key: each returns *)
(* the response built from its own upstream result, the cache holds the    *)
(* response of the later cache.set, and no step of an invocation changes   *)
(* another cache key.                                                      *)
(***************************************************************************)
C25_LastWriteWinsAsStated ==
  /\ [](OwnResult(call) /\ OwnResult(other) /\ HoldsLatest)
  /\ [][LastWriteWins]_vars
  /\ [][InvocationStep => OtherKeysKept]_vars

(***************************************************************************)
(* C25 amended: the same, the other cache keys being left alone by the     *)
(* steps of an invocation that find the cache within its size bound        *)
(* (cache.set first evicts the oldest tenth of a map that is over it).     *)
(***************************************************************************)
C25_LastWriteWins ==
  /\ [](OwnResult(call) /\ OwnResult(other) /\ HoldsLatest)
  /\ [][LastWriteWins]_vars
  /\ [][(InvocationStep /\ WithinSizeBound) => OtherKeysKept]_vars

\* both invocations missed the cache on the same key while the other was
\* suspended, received different packages, and the cache holds the response of
\* the one that finished last beside the entry of the other package
C25_Witness ==
  /\ call.pc = "done" /\ other.pc = "done"
  /\ call.op = "info" /\ other.op = "info"
  /\ call.key = other.key
  /\ ~call.hit /\ ~other.hit
  /\ call.lookupAt = other.lookupAt
  /\ call.result.kind = "return" /\ other.result.kind = "return"
  /\ call.result.value[1].exists /\ other.result.value[1].exists
  /\ call.result.value[1] # other.result.value[1]
  /\ MapGet(data, call.key) # None
  /\ MapGet(data, call.key)[1].data \in {call.result.value[1], other.result.value[1]}
  /\ MapGet(data, call.key)[1].data = stored[call.key][1].value
  /\ MapGet(data, EarlierKey) = Some(EarlierEntry)
  /\ WithinSizeBound

====
